---- MODULE Spec2Model ----
(***************************************************************************)
(* A model of the lottie-editor colour engine: the undo/redo log           *)
(* (HistoryManager), the global HSL recolouring engine with path locks     *)
(* (HslAdjustManager), and the colour locator (ColorExtractor) whose paths *)
(* the locks are made of.                                                  *)
(*                                                                         *)
(* JavaScript values are tagged records:                                   *)
(*   [t |-> "null"], [t |-> "undefined"], [t |-> "nan"],                   *)
(*   [t |-> "num", num |-> n, den |-> d]   the number n/d, in lowest terms *)
(*   [t |-> "str", s |-> "fl"]                                             *)
(*   [t |-> "arr", e |-> <<v1, ..., vn>>]                                  *)
(*   [t |-> "obj", f |-> (key :> value @@ ...)]                            *)
(* Property keys and array indices are strings, as they are in a path      *)
(* ("layers.0.shapes.2.c" is <<"layers","0","shapes","2","c">>).           *)
(* Numbers are exact rationals: the engine's arithmetic is carried out     *)
(* exactly, and Math.round is applied where the code applies it.           *)
(***************************************************************************)
EXTENDS Integers, Sequences, FiniteSets, TLC

VARIABLES
    \* HistoryManager
    MAX_HISTORY,        \* this.MAX_HISTORY (constructor argument)
    historyStack,       \* this.historyStack, oldest first
    redoStack,          \* this.redoStack, most recently undone last
    lastCall,           \* the last HistoryManager call: its name, argument, result, and the stacks before it
    saveRun,            \* the payloads of the saveState calls made in a row since construction or clear()
    \* HslAdjustManager and its caller's working document
    animData,           \* the caller's working document (LottieEditor.animData)
    hslOriginalAnimData,\* HslAdjustManager.originalAnimData, the baseline (Null when not captured)
    hueShift,           \* this.hueShift
    saturationShift,    \* this.saturationShift
    lightnessShift,     \* this.lightnessShift
    lockedPaths,        \* this.lockedPaths
    hslCall,            \* the applyAdjustments call just made: its arguments, the paths edited before it, its result
    capture,            \* the document passed to the first applyAdjustments since clear(), and
                        \* whether every applyAdjustments since then found no path locked
    editedPaths,        \* the paths of the colours edited directly since the last applyAdjustments
    edits,              \* number of direct colour edits made so far (bounded)
    lockOps,            \* number of lock changes made so far (bounded)
    ops,                \* number of operations of the colour engine made so far (bounded)
    heap,               \* which object each document reference holds, and the objects the
                        \* applyAdjustments call just made read, allocated and wrote
    \* ColorExtractor
    groupedColors,      \* this.groupedColors: the groups, keyed by the hex they share
    extractCall,        \* the extractColors call just made: its argument and what it returned
    \* LottieEditor
    originalAnimData,   \* this.originalAnimData: the file as parsed (Null before a load)
    pending,            \* the loadFile promises not yet settled, in the order of the requests
    picker,             \* the colour picker that is open: the document it was opened on and
                        \* the colour changes made through it (Null when none is open)
    edCall,             \* the editor handler just run: its name and the state it found
    mergeCall,          \* the deepTraverseAndCopyColors call just made: its arguments as the
                        \* call found them and as it left them
    objects             \* the document objects: which object each reference of the editor,
                        \* of the HslAdjustManager and of the history entries holds

histVars == <<MAX_HISTORY, historyStack, redoStack, lastCall, saveRun>>
hslVars == <<animData, hslOriginalAnimData, hueShift, saturationShift, lightnessShift,
             lockedPaths, hslCall, capture, editedPaths, edits, lockOps, ops, heap>>
extVars == <<groupedColors, extractCall>>
edVars == <<originalAnimData, pending, picker, edCall, mergeCall, objects>>
vars == <<histVars, hslVars, extVars, edVars>>

----------------------------------------------------------------------------
(* Bounds of the model *)

\* HistoryManager is constructed with maxHistory in 1..MaxHistoryBound
MaxHistoryBound == 3
\* payload documents are numbered 1..NumPayloads
NumPayloads == 2
\* a run of consecutive saveState calls is followed for up to MaxSaveRun calls
MaxSaveRun == 5
\* direct colour edits made on one document
MaxEdits == 1
\* lock changes made on one document
MaxLockOps == 1
\* operations of the colour engine (recolourings, edits, lock changes, clear) on one document
MaxOps == 4

----------------------------------------------------------------------------
(* JavaScript values *)

Null == [t |-> "null"]
Undefined == [t |-> "undefined"]
NaN == [t |-> "nan"]
Num(n, d) == [t |-> "num", num |-> n, den |-> d]
Int2Num(n) == Num(n, 1)
Str(s) == [t |-> "str", s |-> s]
Arr(e) == [t |-> "arr", e |-> e]
Obj(f) == [t |-> "obj", f |-> f]

IsArray(v) == v.t = "arr"
IsObjectType(v) == v.t \in {"obj", "arr", "null"}       \* typeof v === "object"
IsNumberType(v) == v.t \in {"num", "nan"}               \* typeof v === "number"
Truthy(v) ==
    /\ v.t \notin {"null", "undefined", "nan"}
    /\ (v.t = "num" => v.num # 0)
    /\ (v.t = "str" => v.s # "")

\* JSON.stringify: a property whose value is undefined is dropped, an undefined or
\* NaN array element becomes null, NaN becomes null. The string is represented by
\* the value it denotes, so two values have the same string iff these are equal.
RECURSIVE JSONstringify(_)
JSONstringify(v) ==
    CASE v.t = "obj" ->
            Obj([k \in {k \in DOMAIN v.f : v.f[k].t # "undefined"} |-> JSONstringify(v.f[k])])
      [] v.t = "arr" ->
            Arr([i \in 1..Len(v.e) |->
                    IF v.e[i].t = "undefined" THEN Null ELSE JSONstringify(v.e[i])])
      [] v.t = "nan" -> Null
      [] OTHER -> v

\* JSON.parse of a string produced by JSON.stringify: the value the string denotes
JSONparse(s) == s

\* JSON.parse(JSON.stringify(v)), the deep copy used throughout
DeepCopy(v) == JSONparse(JSONstringify(v))

----------------------------------------------------------------------------
(* Numbers: exact rational arithmetic on [t |-> "num", num, den], den > 0, in   *)
(* lowest terms                                                                 *)

IsNum(v) == v.t = "num"
Abs(n) == IF n < 0 THEN -n ELSE n
RECURSIVE GCD(_, _)
GCD(a, b) == IF b = 0 THEN a ELSE GCD(b, a % b)

\* n/d in lowest terms with a positive denominator
Rat(n, d) ==
    LET g == GCD(Abs(n), Abs(d))
        sgn == IF d < 0 THEN -1 ELSE 1
    IN  [t |-> "num", num |-> (sgn * n) \div g, den |-> (sgn * d) \div g]
RAdd(a, b) ==
    LET g == GCD(a.den, b.den)
        n == a.num * (b.den \div g) + b.num * (a.den \div g)
        d == (a.den \div g) * b.den
        g2 == GCD(Abs(n), d)
    IN  [t |-> "num", num |-> n \div g2, den |-> d \div g2]
RSub(a, b) ==
    LET g == GCD(a.den, b.den)
        n == a.num * (b.den \div g) - b.num * (a.den \div g)
        d == (a.den \div g) * b.den
        g2 == GCD(Abs(n), d)
    IN  [t |-> "num", num |-> n \div g2, den |-> d \div g2]
RMul(a, b) ==
    LET g1 == GCD(Abs(a.num), b.den)
        g2 == GCD(Abs(b.num), a.den)
    IN  [t |-> "num", num |-> (a.num \div g1) * (b.num \div g2), den |-> (a.den \div g2) * (b.den \div g1)]
\* a / b, b not zero
RDiv(a, b) ==
    LET sgn == IF b.num < 0 THEN -1 ELSE 1
        g1 == GCD(Abs(a.num), Abs(b.num))
        g2 == GCD(b.den, a.den)
    IN  [t |-> "num", num |-> sgn * (a.num \div g1) * (b.den \div g2),
         den |-> (a.den \div g2) * (Abs(b.num) \div g1)]
RLt(a, b) ==
    LET g == GCD(a.den, b.den)
    IN  a.num * (b.den \div g) < b.num * (a.den \div g)
RMax(a, b) == IF RLt(a, b) THEN b ELSE a
RMin(a, b) == IF RLt(b, a) THEN b ELSE a
Trunc(a) == IF a.num >= 0 THEN a.num \div a.den ELSE -((-a.num) \div a.den)
\* Math.round: the nearest integer, a half rounding up
MathRound(a) == (2 * a.num + a.den) \div (2 * a.den)
\* the % operator: the remainder has the sign of the dividend
RMod(a, m) == RSub(a, RMul(m, Int2Num(Trunc(RDiv(a, m)))))

----------------------------------------------------------------------------
(* colorUtils: rgbToHsl, hslToRgb. An operand that is no number makes every      *)
(* result NaN. Each function is written as the chain of its statements, a       *)
(* statement handing the values it computed to the next.                        *)

\* lines 65-77: s and h of a colour that is not grey, d = max - min
Saturation(max, min, l, d) ==
    IF RLt(Num(1, 2), l)
    THEN RDiv(d, RSub(RSub(Int2Num(2), max), min))
    ELSE RDiv(d, RAdd(max, min))
Hue(r, g, b, max, d) ==
    IF max = r
    THEN RDiv(RAdd(RDiv(RSub(g, b), d), Int2Num(IF RLt(g, b) THEN 6 ELSE 0)), Int2Num(6))
    ELSE IF max = g
    THEN RDiv(RAdd(RDiv(RSub(b, r), d), Int2Num(2)), Int2Num(6))
    ELSE RDiv(RAdd(RDiv(RSub(r, g), d), Int2Num(4)), Int2Num(6))
\* lines 59-80
HslOfRange(r, g, b, max, min, l) ==
    IF max = min
    THEN [h |-> Int2Num(0), s |-> Int2Num(0), l |-> RMul(l, Int2Num(100))]
    ELSE [h |-> RMul(Hue(r, g, b, max, RSub(max, min)), Int2Num(360)),
          s |-> RMul(Saturation(max, min, l, RSub(max, min)), Int2Num(100)),
          l |-> RMul(l, Int2Num(100))]
\* lines 56-57
HslOfMaxMin(r, g, b, max, min) == HslOfRange(r, g, b, max, min, RDiv(RAdd(max, min), Int2Num(2)))
HslOfUnit(r, g, b) == HslOfMaxMin(r, g, b, RMax(RMax(r, g), b), RMin(RMin(r, g), b))
\* rgbToHsl(r, g, b), r, g, b in 0..255: {h: 0-360, s: 0-100, l: 0-100}
rgbToHsl(r255, g255, b255) ==
    IF ~(IsNum(r255) /\ IsNum(g255) /\ IsNum(b255)) THEN [h |-> NaN, s |-> NaN, l |-> NaN]
    ELSE HslOfUnit(RDiv(r255, Int2Num(255)), RDiv(g255, Int2Num(255)), RDiv(b255, Int2Num(255)))

\* the inner hue2rgb(p, q, t) of hslToRgb, lines 100-107
Hue2RgbWrapped(p, q, t) ==
    IF RLt(t, Num(1, 6)) THEN RAdd(p, RMul(RMul(RSub(q, p), Int2Num(6)), t))
    ELSE IF RLt(t, Num(1, 2)) THEN q
    ELSE IF RLt(t, Num(2, 3)) THEN RAdd(p, RMul(RMul(RSub(q, p), RSub(Num(2, 3), t)), Int2Num(6)))
    ELSE p
WrapHigh(t) == IF RLt(Int2Num(1), t) THEN RSub(t, Int2Num(1)) ELSE t
WrapLow(t) == IF t.num < 0 THEN RAdd(t, Int2Num(1)) ELSE t
hue2rgb(p, q, t) == Hue2RgbWrapped(p, q, WrapHigh(WrapLow(t)))

\* Math.round(x * 255), lines 117-119
Round255(x) == Int2Num(MathRound(RMul(x, Int2Num(255))))
\* lines 111-113
RgbOfPQ(h, p, q) ==
    IF ~IsNum(p) THEN [r |-> NaN, g |-> NaN, b |-> NaN]
    ELSE [r |-> Round255(hue2rgb(p, q, RAdd(h, Num(1, 3)))),
          g |-> Round255(hue2rgb(p, q, h)),
          b |-> Round255(hue2rgb(p, q, RSub(h, Num(1, 3))))]
\* line 110
RgbOfQ(h, l, q) ==
    IF ~IsNum(q) THEN [r |-> NaN, g |-> NaN, b |-> NaN]
    ELSE RgbOfPQ(h, RSub(RMul(Int2Num(2), l), q), q)
\* line 109
QOf(s, l) == IF RLt(l, Num(1, 2)) THEN RMul(l, RAdd(Int2Num(1), s)) ELSE RSub(RAdd(l, s), RMul(l, s))
\* lines 97-114
RgbOfUnit(h, s, l) ==
    IF s.num = 0
    THEN [r |-> Round255(l), g |-> Round255(l), b |-> Round255(l)]
    ELSE RgbOfQ(h, l, QOf(s, l))
\* hslToRgb(h, s, l): {r, g, b}, integers 0..255
hslToRgb(h360, s100, l100) ==
    IF ~(IsNum(h360) /\ IsNum(s100) /\ IsNum(l100)) THEN [r |-> NaN, g |-> NaN, b |-> NaN]
    ELSE RgbOfUnit(RDiv(h360, Int2Num(360)), RDiv(s100, Int2Num(100)), RDiv(l100, Int2Num(100)))

----------------------------------------------------------------------------
(* Property access on JavaScript values *)

\* the index keys "0", "1", ... of the arrays of the model
IndexKeys == <<"0", "1", "2", "3", "4", "5", "6", "7", "8", "9", "10", "11", "12", "13", "14", "15">>
KeyOf(i) == IndexKeys[i + 1]
IsIndexKey(k) == \E i \in 1..Len(IndexKeys) : IndexKeys[i] = k
\* parseInt(key): -1 stands for NaN
parseInt(k) == IF IsIndexKey(k) THEN (CHOOSE i \in 0..(Len(IndexKeys) - 1) : IndexKeys[i + 1] = k) ELSE -1

\* a TypeError thrown by the code (reading or writing a property of null, undefined
\* or, for a write, of a primitive)
TypeError == [t |-> "TypeError"]

\* v[k]; undefined when v has no such property (v is not null or undefined)
Get(v, k) ==
    CASE v.t = "obj" -> IF k \in DOMAIN v.f THEN v.f[k] ELSE Undefined
      [] v.t = "arr" -> IF IsIndexKey(k) /\ parseInt(k) < Len(v.e) THEN v.e[parseInt(k) + 1] ELSE Undefined
      [] OTHER -> Undefined
\* v.hasOwnProperty(k)
hasOwnProperty(v, k) == Get(v, k) # Undefined
\* arr.length
Length(v) == IF v.t = "arr" THEN Len(v.e) ELSE 0
\* arr[i] = x: an index at or past the end lengthens the array (holes read undefined)
SetIdx(a, i, x) ==
    IF i < Len(a.e)
    THEN Arr([a.e EXCEPT ![i + 1] = x])
    ELSE Arr([j \in 1..(i + 1) |-> IF j <= Len(a.e) THEN a.e[j] ELSE IF j = i + 1 THEN x ELSE Undefined])
\* v[k] = x on an object or an array
Put(v, k, x) ==
    CASE v.t = "obj" -> Obj(IF k \in DOMAIN v.f THEN [v.f EXCEPT ![k] = x] ELSE v.f @@ (k :> x))
      [] v.t = "arr" -> IF IsIndexKey(k) THEN SetIdx(v, parseInt(k), x) ELSE v
      [] OTHER -> TypeError
\* the own enumerable keys of v (for key in v)
Keys(v) ==
    CASE v.t = "obj" -> DOMAIN v.f
      [] v.t = "arr" -> {KeyOf(i) : i \in 0..(Len(v.e) - 1)}
      [] OTHER -> {}
\* the value at a path of keys, undefined when the path does not resolve
RECURSIVE GetPath(_, _)
GetPath(v, path) ==
    IF path = <<>> THEN v
    ELSE IF v.t \notin {"obj", "arr"} THEN Undefined
    ELSE GetPath(Get(v, Head(path)), Tail(path))
\* the value with the value at a path replaced (the path resolves)
RECURSIVE PutPath(_, _, _)
PutPath(v, path, x) ==
    IF path = <<>> THEN x
    ELSE Put(v, Head(path), PutPath(Get(v, Head(path)), Tail(path), x))

\* x * 255 for a value read from the document: null counts as 0, what is not a number gives NaN
Times255(v) ==
    CASE v.t = "num" -> RMul(v, Int2Num(255))
      [] v.t = "null" -> Int2Num(0)
      [] OTHER -> NaN

----------------------------------------------------------------------------
(* HistoryManager *)

\* The payloads handed to saveState and redo: objects, one of them (PayloadU) with
\* a property whose value is undefined, which serializes like Payload(1).
Payload(i) == Obj("id" :> Int2Num(i))
PayloadU == Obj("id" :> Int2Num(1) @@ "tmp" :> Undefined)
Payloads == {Payload(i) : i \in 1..NumPayloads} \cup {PayloadU}

NoCall == [op |-> "new", arg |-> Null, ret |-> Null, preHistory |-> <<>>, preRedo |-> <<>>]
Call(op, arg, ret) ==
    [op |-> op, arg |-> arg, ret |-> ret, preHistory |-> historyStack, preRedo |-> redoStack]

Last(s) == s[Len(s)]
Front(s) == SubSeq(s, 1, Len(s) - 1)

\* lines 28-31: push, then shift() when longer than MAX_HISTORY
PushTrimmedDropNewest(stack, newState) ==
    IF Len(stack) + 1 > MAX_HISTORY THEN stack ELSE Append(stack, newState)
PushTrimmed(stack, newState) ==
    LET pushed == Append(stack, newState)
    IN  IF Len(pushed) > MAX_HISTORY THEN Tail(pushed) ELSE pushed

\* saveState(animData), lines 15-33
SaveStateKeepRedo(p) ==
    LET newState == DeepCopy(p)
    IN  /\ Truthy(p)
        /\ IF Len(historyStack) > 0 /\ JSONstringify(newState) = JSONstringify(Last(historyStack))
           THEN UNCHANGED <<historyStack, redoStack>>
           ELSE /\ historyStack' = PushTrimmed(historyStack, newState)
                /\ UNCHANGED redoStack
SaveStateClearsRedoFirst(p) ==
    LET newState == DeepCopy(p)
    IN  /\ Truthy(p)
        /\ redoStack' = <<>>
        /\ IF Len(historyStack) > 0 /\ JSONstringify(newState) = JSONstringify(Last(historyStack))
           THEN UNCHANGED historyStack
           ELSE historyStack' = PushTrimmed(historyStack, newState)
SaveStateStacks(p) ==
    LET newState == DeepCopy(p)
    IN  /\ Truthy(p)
        /\ IF Len(historyStack) > 0 /\ JSONstringify(newState) = JSONstringify(Last(historyStack))
           THEN UNCHANGED <<historyStack, redoStack>>
           ELSE /\ historyStack' = PushTrimmed(historyStack, newState)
                /\ redoStack' = <<>>

\* the run of consecutive saves: followed while each payload differs from its
\* predecessor and the run is no longer than MaxSaveRun
ExtendRun(p) ==
    IF /\ saveRun.ok
       /\ Len(saveRun.seq) < MaxSaveRun
       /\ (Len(saveRun.seq) > 0 => JSONstringify(p) # JSONstringify(Last(saveRun.seq)))
    THEN [ok |-> TRUE, seq |-> Append(saveRun.seq, p)]
    ELSE [ok |-> FALSE, seq |-> <<>>]
BrokenRun == [ok |-> FALSE, seq |-> <<>>]
EmptyRun == [ok |-> TRUE, seq |-> <<>>]

SaveState(p) ==
    /\ SaveStateStacks(p)
    /\ lastCall' = Call("saveState", p, Undefined)
    /\ saveRun' = ExtendRun(p)
    /\ UNCHANGED <<MAX_HISTORY, hslVars, extVars, edVars>>

\* saveState(null): line 16
SaveStateNothing ==
    /\ ~Truthy(Null)
    /\ lastCall' = Call("saveStateNothing", Null, Undefined)
    /\ UNCHANGED <<MAX_HISTORY, historyStack, redoStack, saveRun, hslVars, extVars, edVars>>

\* undo(), lines 39-44
UndoResultBelowFloor ==
    IF Len(historyStack) < 1
    THEN [history |-> historyStack, redo |-> redoStack, ret |-> Null]
    ELSE [history |-> Front(historyStack),
          redo |-> Append(redoStack, Last(historyStack)),
          ret |-> IF Len(historyStack) = 1 THEN Null ELSE DeepCopy(Last(Front(historyStack)))]
UndoResultReturnsPopped ==
    IF Len(historyStack) <= 1
    THEN [history |-> historyStack, redo |-> redoStack, ret |-> Null]
    ELSE [history |-> Front(historyStack),
          redo |-> Append(redoStack, Last(historyStack)),
          ret |-> DeepCopy(Last(historyStack))]
UndoResult ==
    IF Len(historyStack) <= 1
    THEN [history |-> historyStack, redo |-> redoStack, ret |-> Null]
    ELSE [history |-> Front(historyStack),
          redo |-> Append(redoStack, Last(historyStack)),
          ret |-> DeepCopy(Last(Front(historyStack)))]
Undo ==
    /\ historyStack' = UndoResult.history
    /\ redoStack' = UndoResult.redo
    /\ lastCall' = Call("undo", Null, UndoResult.ret)
    /\ saveRun' = BrokenRun
    /\ UNCHANGED <<MAX_HISTORY, hslVars, extVars, edVars>>

\* redo(currentAnimData), lines 51-57
RedoResultPushesRedoState(cur) ==
    IF Len(redoStack) = 0
    THEN [history |-> historyStack, redo |-> redoStack, ret |-> Null]
    ELSE [history |-> Append(historyStack, Last(redoStack)),
          redo |-> Front(redoStack),
          ret |-> Last(redoStack)]
RedoResult(cur) ==
    IF Len(redoStack) = 0
    THEN [history |-> historyStack, redo |-> redoStack, ret |-> Null]
    ELSE [history |-> Append(historyStack, DeepCopy(cur)),
          redo |-> Front(redoStack),
          ret |-> Last(redoStack)]
Redo(cur) ==
    /\ historyStack' = RedoResult(cur).history
    /\ redoStack' = RedoResult(cur).redo
    /\ lastCall' = Call("redo", cur, RedoResult(cur).ret)
    /\ saveRun' = BrokenRun
    /\ UNCHANGED <<MAX_HISTORY, hslVars, extVars, edVars>>

\* clear(), lines 62-65
Clear ==
    /\ historyStack' = <<>>
    /\ redoStack' = <<>>
    /\ lastCall' = Call("clear", Null, Undefined)
    /\ saveRun' = EmptyRun
    /\ UNCHANGED <<MAX_HISTORY, hslVars, extVars, edVars>>

\* no applyAdjustments call was just made; no baseline is captured
NoHslCall == [op |-> "none"]
\* The live document objects are numbered: 1 is the object LottieEditor.animData
\* refers to; original is the object originalAnimData refers to, 0 for null.
NoAlloc == [op |-> "none"]
Heap(original, call) == [animData |-> 1, original |-> original, call |-> call]
NoCapture == [doc |-> Null, clean |-> TRUE]
HslIdle ==
    /\ animData = Null
    /\ hslOriginalAnimData = Null
    /\ hueShift = 0
    /\ saturationShift = 0
    /\ lightnessShift = 0
    /\ lockedPaths = {}
    /\ hslCall = NoHslCall
    /\ capture = NoCapture
    /\ editedPaths = {}
    /\ edits = 0
    /\ lockOps = 0
    /\ ops = 0
    /\ heap = Heap(0, NoAlloc)

\* new ColorExtractor(), part_004 lines 7-9; no extractColors call was just made
NoGroups == <<>>
NoExtractCall == [op |-> "none"]
\* no editor handler has run, no load is in flight, nothing was merged
NoEdCall == [op |-> "none", undone |-> FALSE, forward |-> FALSE]
NoMergeCall == [op |-> "none"]
\* no document object exists (see the document objects below)
NoObjects ==
    [op |-> "none", cells |-> <<>>, pre |-> <<>>, original |-> 0, animData |-> 0, baseline |-> 0,
     history |-> <<>>, redo |-> <<>>, export |-> 0]
EditorIdle ==
    /\ originalAnimData = Null
    /\ pending = <<>>
    /\ picker = Null
    /\ edCall = NoEdCall
    /\ mergeCall = NoMergeCall
    /\ objects = NoObjects
ExtractIdle ==
    /\ groupedColors = NoGroups
    /\ extractCall = NoExtractCall

\* new HistoryManager(maxHistory), lines 5-9
InitHistory ==
    /\ MAX_HISTORY \in 1..MaxHistoryBound
    /\ historyStack = <<>>
    /\ redoStack = <<>>
    /\ lastCall = NoCall
    /\ saveRun = EmptyRun
    /\ HslIdle
    /\ ExtractIdle
    /\ EditorIdle

NextHistory ==
    \/ \E p \in Payloads : SaveState(p)
    \/ SaveStateNothing
    \/ Undo
    \/ \E p \in Payloads : Redo(p)
    \/ Clear

SpecHistory == InitHistory /\ [][NextHistory]_vars

----------------------------------------------------------------------------
(* colorUtils: rgbToHex, rgbaToHex, hexToRgb. A hex string "#rrggbb" is         *)
(* represented by the three rounded channel values it spells.                   *)

HexOf(r, g, b) == [t |-> "hex", rgb |-> <<r, g, b>>]
\* rgbToHex(r, g, b): Math.round of each channel, -1 standing for "NaN"
rgbToHex(r, g, b) ==
    LET h(x) == IF x.t = "num" THEN MathRound(x) ELSE -1
    IN  HexOf(h(r), h(g), h(b))
\* rgbaToHex(arr)
rgbaToHex(arr) == rgbToHex(Times255(Get(arr, "0")), Times255(Get(arr, "1")), Times255(Get(arr, "2")))
\* hexToRgb(hex): {r, g, b} in 0..255
hexToRgbBlueFirst(hex) == [r |-> hex.rgb[3] % 256, g |-> hex.rgb[2] % 256, b |-> hex.rgb[1] % 256]
hexToRgb(hex) == [r |-> hex.rgb[1] % 256, g |-> hex.rgb[2] % 256, b |-> hex.rgb[3] % 256]

----------------------------------------------------------------------------
(* ColorExtractor *)

\* the order in which an object's keys are enumerated: the order in which the
\* documents of the model spell them
KeyOrder == <<"ty", "nm", "a", "p", "t", "s", "c", "sc", "g", "k", "it", "shapes", "layers",
              "id", "tmp", "animData", "hsl", "hue", "saturation", "lightness">>
OrderedKeys(v) ==
    CASE v.t = "obj" -> SelectSeq(KeyOrder, LAMBDA k : k \in DOMAIN v.f)
      [] v.t = "arr" -> SubSeq(IndexKeys, 1, Len(v.e))
      [] OTHER -> <<>>

RECURSIVE Concat(_)
Concat(seqs) == IF seqs = <<>> THEN <<>> ELSE Head(seqs) \o Concat(Tail(seqs))

\* the instance pushed by addColor (lines 86-88); ref is the path of the object it refers to
Instance(type, shapeType, ref, hex, index, offset, stopCount, path) ==
    [type |-> type, shapeType |-> shapeType, ref |-> ref, hex |-> hex, index |-> index,
     offset |-> offset, stopCount |-> stopCount, path |-> path]

\* the category of a fill colour, lines 117-128 and 135-146: <<type, shapeType>>
FillCategory(shapeType) ==
    IF shapeType = Str("fl") THEN <<"solid", "fill">>
    ELSE IF shapeType = Str("st") THEN <<"stroke", "stroke">>
    ELSE <<"solid", "solid color (unknown)">>

\* the keyframes of an animated colour, lines 114-132 and 160-165: keyframe.s of a
\* null keyframe throws
KeyframeInstances(k, type, shapeType, path) ==
    Concat([i \in 1..Len(k.e) |->
        LET keyframe == k.e[i]
            keyframePath == path \o <<"k", KeyOf(i - 1)>>
        IN  IF keyframe.t = "null" THEN <<TypeError>>
            ELSE IF Truthy(Get(keyframe, "s")) /\ IsArray(Get(keyframe, "s"))
                 THEN <<Instance(type, shapeType, keyframePath, rgbaToHex(Get(keyframe, "s")),
                                 Null, Null, Null, keyframePath)>>
                 ELSE <<>>])

\* processFill(o, shapeType, c, path), lines 111-150
processFill(o, shapeType, path) ==
    LET c == Get(o, "c")
        k == Get(c, "k")
        cat == FillCategory(shapeType)
    IN  IF Get(c, "a") = Int2Num(1)
        THEN IF IsArray(k) THEN KeyframeInstances(k, cat[1], cat[2], path) ELSE <<>>
        ELSE IF IsArray(k)
             THEN <<Instance(cat[1], cat[2], path, rgbaToHex(k), Null, Null, Null, path)>>
             ELSE <<>>

\* processStroke(o, c, path), lines 158-169
processStroke(o, path) ==
    LET sc == Get(o, "sc")
        k == Get(sc, "k")
    IN  IF Get(sc, "a") = Int2Num(1) /\ IsArray(k)
        THEN KeyframeInstances(k, "stroke", "stroke", path)
        ELSE IF IsArray(k)
             THEN <<Instance("stroke", "stroke", path, rgbaToHex(k), Null, Null, Null, path)>>
             ELSE <<>>

\* the stop count of the locator, line 185: o.g.p || arr.length / 4
ExtractorNumStopsByLength(g, arr) == Rat(Len(arr.e), 4)
ExtractorNumStops(g, arr) ==
    LET p == Get(g, "p")
    IN  IF Truthy(p) THEN p ELSE Rat(Len(arr.e), 4)

\* the flat indices 0, 4, 8, ... below loopLimit = numStops * 4 (none when numStops is no number)
StopIndices(numStops) ==
    IF numStops.t # "num" THEN <<>>
    ELSE LET loopLimit == RMul(numStops, Int2Num(4))
             n == Cardinality({i \in 0..(Len(IndexKeys) - 1) : i % 4 = 0 /\ RLt(Int2Num(i), loopLimit)})
         IN  [j \in 1..n |-> 4 * (j - 1)]

\* processGradientStops(gradientData, gradientRef, gradientPath), lines 183-209
processGradientStops(g, gradientShapeType, arr, gradientRef, gradientPath) ==
    LET numStops == ExtractorNumStops(g, arr)
        idx == StopIndices(numStops)
    IN  [j \in 1..Len(idx) |->
            LET i == idx[j]
            IN  Instance("gradient", gradientShapeType, gradientRef,
                         rgbToHex(Times255(Get(arr, KeyOf(i + 1))), Times255(Get(arr, KeyOf(i + 2))),
                                  Times255(Get(arr, KeyOf(i + 3)))),
                         Int2Num(i), Get(arr, KeyOf(i)), numStops, Append(gradientPath, KeyOf(i)))]

\* processGradient(o, shapeType, c, path), lines 178-223
processGradient(o, shapeType, path) ==
    LET g == Get(o, "g")
        gk == Get(g, "k")
        gkk == Get(gk, "k")
        gradientShapeType == IF shapeType = Str("gf") THEN "gradient fill"
                             ELSE IF shapeType = Str("gs") THEN "gradient stroke"
                             ELSE "gradient"
    IN  IF Truthy(gk) /\ ~Truthy(Get(gk, "a")) /\ IsArray(gk)
        THEN processGradientStops(g, gradientShapeType, gk, path, Append(path, "k"))
        ELSE IF Truthy(gk) /\ Get(gk, "a") = Int2Num(1) /\ IsArray(gkk)
        THEN Concat([i \in 1..Len(gkk.e) |->
                LET keyframe == gkk.e[i]
                    keyframePath == path \o <<"k", "k", KeyOf(i - 1)>>
                IN  IF Truthy(keyframe) /\ IsArray(Get(keyframe, "s"))
                    THEN processGradientStops(g, gradientShapeType, Get(keyframe, "s"),
                                              keyframePath, Append(keyframePath, "s"))
                    ELSE <<>>])
        ELSE IF Truthy(gk) /\ Truthy(gkk) /\ IsArray(gkk) /\ IsNumberType(Get(gkk, "0"))
        THEN processGradientStops(g, gradientShapeType, gkk, Append(path, "k"), path \o <<"k", "k">>)
        ELSE <<>>

\* recursiveExtract(o, c, path), lines 47-73: the instances pushed, in order
RECURSIVE recursiveExtract(_, _)
recursiveExtract(o, path) ==
    IF ~(Truthy(o) /\ IsObjectType(o)) THEN <<>>
    ELSE LET shapeType == Get(o, "ty")
             c == Get(o, "c")
             sc == Get(o, "sc")
             keys == OrderedKeys(o)
         IN  (IF Truthy(c) /\ Truthy(Get(c, "k")) THEN processFill(o, shapeType, Append(path, "c")) ELSE <<>>)
             \o (IF Truthy(sc) /\ Truthy(Get(sc, "k")) THEN processStroke(o, Append(path, "sc")) ELSE <<>>)
             \o (IF Truthy(Get(o, "g")) THEN processGradient(o, shapeType, Append(path, "g")) ELSE <<>>)
             \o Concat([j \in 1..Len(keys) |->
                    IF IsObjectType(Get(o, keys[j]))
                    THEN recursiveExtract(Get(o, keys[j]), Append(path, keys[j]))
                    ELSE <<>>])

\* extractColors(obj), lines 16-24: the instances returned (a TypeError element
\* marks a call that threw)
extractColors(obj) ==
    IF Truthy(obj) /\ IsObjectType(obj) THEN recursiveExtract(obj, <<>>) ELSE <<>>
Range(seq) == {seq[i] : i \in 1..Len(seq)}
Instances(doc) == Range(extractColors(doc)) \ {TypeError}

\* groupKey = hex.toLowerCase(), line 90: the key of a hex, represented as the hex
\* is by the channel values it spells (rgbToHex spells lower-case digits)
groupKey(hex) == hex.rgb
\* addColor(...), lines 86-101: the groups after the instance is pushed
addColorCountsGroups(grouped, instance) ==
    IF groupKey(instance.hex) \in DOMAIN grouped
    THEN [grouped EXCEPT ![groupKey(instance.hex)] = [@ EXCEPT !.instances = Append(@, instance)]]
    ELSE grouped @@ (groupKey(instance.hex) :>
              [hex |-> instance.hex, count |-> 1, instances |-> <<instance>>,
               shapeType |-> instance.shapeType])
addColor(grouped, instance) ==
    IF groupKey(instance.hex) \in DOMAIN grouped
    THEN [grouped EXCEPT ![groupKey(instance.hex)] =
              [@ EXCEPT !.count = @ + 1, !.instances = Append(@, instance)]]
    ELSE grouped @@ (groupKey(instance.hex) :>
              [hex |-> instance.hex, count |-> 1, instances |-> <<instance>>,
               shapeType |-> instance.shapeType])
RECURSIVE AddColors(_, _, _)
AddColors(grouped, instances, i) ==
    IF i > Len(instances) THEN grouped
    ELSE AddColors(addColor(grouped, instances[i]), instances, i + 1)

\* the instances pushed before the first throw
Thrown(pushed) == \E i \in 1..Len(pushed) : pushed[i] = TypeError
BeforeThrow(pushed) ==
    IF ~Thrown(pushed) THEN pushed
    ELSE SubSeq(pushed, 1, (CHOOSE i \in 1..Len(pushed) :
                               pushed[i] = TypeError /\ \A j \in 1..(i - 1) : pushed[j] # TypeError) - 1)

\* extractColors(obj), lines 16-24 with resetGroupedColors (lines 37-39), on an
\* extractor whose groups are grouped: what the call returns, and the groups it
\* leaves; pushed is what recursiveExtract pushes, kept the part before a throw
ExtractorReturn(obj, pushed) ==
    IF ~(Truthy(obj) /\ IsObjectType(obj)) THEN <<>>
    ELSE IF Thrown(pushed) THEN TypeError ELSE pushed
ExtractorGroups(grouped, obj, kept) ==
    IF ~(Truthy(obj) /\ IsObjectType(obj)) THEN grouped ELSE AddColors(NoGroups, kept, 1)
\* written: the <<instance, hex>> the picker wrote before the call, <<>> when it wrote nothing
ExtractCall(obj, pushed, written) ==
    [op |-> "extractColors", obj |-> obj, pre |-> groupedColors, kept |-> BeforeThrow(pushed),
     thrown |-> Truthy(obj) /\ IsObjectType(obj) /\ Thrown(pushed),
     ret |-> ExtractorReturn(obj, pushed), written |-> written]
\* this.allExtractedColors = this.colorExtractor.extractColors(obj), as the editor's
\* handlers end (part_001 lines 64, 377, 420, 542)
Extracted(obj, written) ==
    \E pushed \in {extractColors(obj)} :
        /\ extractCall' = ExtractCall(obj, pushed, written)
        /\ groupedColors' = ExtractorGroups(groupedColors, obj, extractCall'.kept)

----------------------------------------------------------------------------
(* HslAdjustManager: the recolouring walk. m stands for `this`: its lockedPaths *)
(* and its three shifts. A null keyframe of an animated colour makes the walk   *)
(* throw: the TypeError marker is left where the keyframe was.                  *)

Manager(locked, h, s, l) ==
    [lockedPaths |-> locked, hueShift |-> h, saturationShift |-> s, lightnessShift |-> l]

\* isPathLocked(path), lines 82-84
isPathLocked(m, path) == path \in m.lockedPaths

\* lines 254-269 and 326-341: r, g, b (0-255) to HSL, the three shifts, back to RGB,
\* each channel divided by 255; NaN throughout when a channel is no number
Channels(newRgb) ==
    IF ~IsNum(newRgb.r) THEN <<NaN, NaN, NaN>>
    ELSE <<RDiv(newRgb.r, Int2Num(255)), RDiv(newRgb.g, Int2Num(255)), RDiv(newRgb.b, Int2Num(255))>>
ShiftedHsl(hsl, m) ==
    IF ~IsNum(hsl.h) THEN <<NaN, NaN, NaN>>
    ELSE Channels(hslToRgb(
            RMod(RAdd(RAdd(hsl.h, Int2Num(m.hueShift)), Int2Num(360)), Int2Num(360)),
            RMax(Int2Num(0), RMin(Int2Num(100), RAdd(hsl.s, Int2Num(m.saturationShift)))),
            RMax(Int2Num(0), RMin(Int2Num(100), RAdd(hsl.l, Int2Num(m.lightnessShift))))))
ShiftedRgb(r, g, b, m) == ShiftedHsl(rgbToHsl(r, g, b), m)

\* arr[i] = new[1]; arr[i + 1] = new[2]; arr[i + 2] = new[3]
WriteRgb(arr, i, new) == SetIdx(SetIdx(SetIdx(arr, i, new[1]), i + 1, new[2]), i + 2, new[3])

\* adjustRgbaArray(arr), lines 249-271
adjustRgbaArray(arr, m) ==
    WriteRgb(arr, 0, ShiftedRgb(Times255(Get(arr, "0")), Times255(Get(arr, "1")), Times255(Get(arr, "2")), m))

\* lines 228-236: the forEach over the keyframes of an animated colour, the first n of them
RECURSIVE AdjustKeyframes(_, _, _, _)
AdjustKeyframes(k, n, path, m) ==
    IF n = 0 THEN <<>>
    ELSE Append(AdjustKeyframes(k, n - 1, path, m),
                LET keyframe == k.e[n]
                IN  IF keyframe.t = "null" THEN TypeError
                    ELSE IF /\ Truthy(Get(keyframe, "s")) /\ IsArray(Get(keyframe, "s"))
                            /\ ~isPathLocked(m, path \o <<"k", KeyOf(n - 1)>>)
                    THEN Put(keyframe, "s", adjustRgbaArray(Get(keyframe, "s"), m))
                    ELSE keyframe)

\* adjustColorProperty(colorProp, path), lines 223-243
adjustColorProperty(colorProp, path, m) ==
    LET k == Get(colorProp, "k")
    IN  IF isPathLocked(m, path) THEN colorProp
        ELSE IF Get(colorProp, "a") = Int2Num(1) /\ IsArray(k)
        THEN Put(colorProp, "k", Arr(AdjustKeyframes(k, Len(k.e), path, m)))
        ELSE IF IsArray(k) /\ Len(k.e) >= 3
        THEN Put(colorProp, "k", adjustRgbaArray(k, m))
        ELSE colorProp

\* adjustGradientStops(arr, numStops, path), lines 309-343: the loop from index i on
RECURSIVE AdjustStopsFrom(_, _, _, _, _)
AdjustStopsFrom(arr, i, numStops, path, m) ==
    IF ~(numStops.t = "num" /\ RLt(Int2Num(i), RMul(numStops, Int2Num(4)))) THEN arr
    ELSE IF i + 3 >= Len(arr.e) THEN arr
    ELSE IF isPathLocked(m, Append(path, KeyOf(i))) THEN AdjustStopsFrom(arr, i + 4, numStops, path, m)
    ELSE AdjustStopsFrom(
            WriteRgb(arr, i + 1, ShiftedRgb(Times255(arr.e[i + 2]), Times255(arr.e[i + 3]),
                                            Times255(arr.e[i + 4]), m)),
            i + 4, numStops, path, m)
adjustGradientStops(arr, numStops, path, m) == AdjustStopsFrom(arr, 0, numStops, path, m)

\* the stop count of the recolouring, line 284: gradientProp.p || 0
AdjustNumStops(gradientProp) ==
    IF Truthy(Get(gradientProp, "p")) THEN Get(gradientProp, "p") ELSE Int2Num(0)

\* lines 291-296: the forEach over the keyframes of an animated gradient, the first n of them
RECURSIVE AdjustGradientKeyframes(_, _, _, _, _)
AdjustGradientKeyframes(gkk, n, numStops, path, m) ==
    IF n = 0 THEN <<>>
    ELSE Append(AdjustGradientKeyframes(gkk, n - 1, numStops, path, m),
                LET keyframe == gkk.e[n]
                    keyframePath == path \o <<"k", "k", KeyOf(n - 1)>>
                IN  IF Truthy(keyframe) /\ IsArray(Get(keyframe, "s"))
                    THEN Put(keyframe, "s",
                             adjustGradientStops(Get(keyframe, "s"), numStops, Append(keyframePath, "s"), m))
                    ELSE keyframe)

\* adjustGradient(gradientProp, path), lines 278-301
adjustGradient(gradientProp, path, m) ==
    LET numStops == AdjustNumStops(gradientProp)
        gk == Get(gradientProp, "k")
        gkk == Get(gk, "k")
    IN  IF isPathLocked(m, path) THEN gradientProp
        ELSE IF ~Truthy(Get(gk, "a")) /\ IsArray(gk)
        THEN Put(gradientProp, "k", adjustGradientStops(gk, numStops, Append(path, "k"), m))
        ELSE IF Get(gk, "a") = Int2Num(1) /\ IsArray(gkk)
        THEN Put(gradientProp, "k",
                 Put(gk, "k", Arr(AdjustGradientKeyframes(gkk, Len(gkk.e), numStops, path, m))))
        ELSE IF Truthy(gkk) /\ IsArray(gkk) /\ IsNumberType(Get(gkk, "0"))
        THEN Put(gradientProp, "k", Put(gk, "k", adjustGradientStops(gkk, numStops, path \o <<"k", "k">>, m)))
        ELSE gradientProp

\* lines 198-208: the colour properties c, sc and g of one object
AdjustFill(obj, path, m) ==
    IF Truthy(Get(obj, "c")) /\ Truthy(Get(Get(obj, "c"), "k"))
    THEN Put(obj, "c", adjustColorProperty(Get(obj, "c"), Append(path, "c"), m))
    ELSE obj
AdjustStroke(obj, path, m) ==
    IF Truthy(Get(obj, "sc")) /\ Truthy(Get(Get(obj, "sc"), "k"))
    THEN Put(obj, "sc", adjustColorProperty(Get(obj, "sc"), Append(path, "sc"), m))
    ELSE obj
AdjustGradientOf(obj, path, m) ==
    IF Truthy(Get(obj, "g")) /\ Truthy(Get(Get(obj, "g"), "k"))
    THEN Put(obj, "g", adjustGradient(Get(obj, "g"), Append(path, "g"), m))
    ELSE obj

\* recursiveAdjustColors(obj, path), lines 195-216: the object as the walk leaves it
RECURSIVE recursiveAdjustColors(_, _, _)
\* lines 210-215: the walk goes on in every property that is an object
AdjustChildren(obj, path, m) ==
    IF obj.t = "obj"
    THEN [t |-> "obj", f |-> [key \in DOMAIN obj.f |->
            IF IsObjectType(obj.f[key])
            THEN recursiveAdjustColors(obj.f[key], Append(path, key), m)
            ELSE obj.f[key]]]
    ELSE [t |-> "arr", e |-> [j \in 1..Len(obj.e) |->
            IF IsObjectType(obj.e[j])
            THEN recursiveAdjustColors(obj.e[j], Append(path, KeyOf(j - 1)), m)
            ELSE obj.e[j]]]
recursiveAdjustColors(obj, path, m) ==
    IF ~Truthy(obj) \/ ~IsObjectType(obj) THEN obj
    ELSE AdjustChildren(AdjustGradientOf(AdjustStroke(AdjustFill(obj, path, m), path, m), path, m), path, m)

----------------------------------------------------------------------------
(* HslAdjustManager: syncLockedColors and applyAdjustments *)

\* the loop of lines 151-163: every part resolves, in the current document and in the baseline
RECURSIVE WalkOk(_, _, _)
WalkOk(currentParent, originalParent, parts) ==
    IF parts = <<>> THEN TRUE
    ELSE /\ Truthy(currentParent) /\ Get(currentParent, Head(parts)) # Undefined
         /\ Truthy(originalParent) /\ Get(originalParent, Head(parts)) # Undefined
         /\ WalkOk(Get(currentParent, Head(parts)), Get(originalParent, Head(parts)), Tail(parts))

\* the body of the forEach of syncLockedColors for one locked path, lines 145-183:
\* the baseline as it leaves it, or TypeError
SyncPathNever(original, currentData, path) == original
SyncPath(original, currentData, path) ==
    LET parts == Front(path)
        lastKey == Last(path)
        currentParent == GetPath(currentData, parts)
        originalParent == GetPath(original, parts)
        currentValue == Get(currentParent, lastKey)
        idx == parseInt(lastKey)
    IN  IF ~WalkOk(currentData, original, parts) THEN original
        ELSE IF currentParent.t = "null" THEN TypeError
        ELSE IF currentValue = Undefined THEN original
        ELSE IF IsNumberType(currentValue)
        THEN IF /\ IsArray(currentParent) /\ IsArray(originalParent)
                /\ idx # -1 /\ idx + 3 < Len(currentParent.e) /\ idx + 3 < Len(originalParent.e)
             THEN PutPath(original, parts,
                          Arr([j \in 1..Len(originalParent.e) |->
                                  IF j - 1 \in idx..(idx + 3) THEN currentParent.e[j]
                                  ELSE originalParent.e[j]]))
             ELSE original
        ELSE IF IsObjectType(currentValue)
        THEN IF originalParent.t \in {"obj", "arr"}
             THEN PutPath(original, parts, Put(originalParent, lastKey, DeepCopy(currentValue)))
             ELSE TypeError
        ELSE original

\* syncLockedColors(currentData), lines 141-185: the baseline afterwards, or TypeError
RECURSIVE SyncPaths(_, _, _)
SyncPaths(original, currentData, paths) ==
    IF paths = {} \/ original = TypeError THEN original
    ELSE LET path == CHOOSE q \in paths : TRUE
         IN  SyncPaths(SyncPath(original, currentData, path), currentData, paths \ {path})
syncLockedColors(original, currentData, locked) ==
    IF locked = {} \/ ~Truthy(original) THEN original
    ELSE SyncPaths(original, currentData, locked)

\* applyAdjustments(animData, hue, saturation, lightness), lines 116-135:
\* the baseline afterwards and the document returned (TypeError when the call threw)
Recomputed(captured, synced, m) ==
    IF synced = TypeError
    THEN [original |-> captured, ret |-> TypeError]
    ELSE [original |-> synced, ret |-> recursiveAdjustColors(DeepCopy(synced), <<>>, m)]
AdjustFromWorkingCopy(captured, doc, m) ==
    [original |-> syncLockedColors(captured, doc, m.lockedPaths),
     ret |-> recursiveAdjustColors(DeepCopy(doc), <<>>, m)]
AdjustFrom(captured, doc, m) ==
    Recomputed(captured, syncLockedColors(captured, doc, m.lockedPaths), m)
CapturedAlways(original, doc) == DeepCopy(doc)
Captured(original, doc) == IF ~Truthy(original) THEN DeepCopy(doc) ELSE original
applyAdjustments(original, doc, locked, hue, saturation, lightness) ==
    AdjustFrom(Captured(original, doc), doc, Manager(locked, hue, saturation, lightness))

\* the record of the applyAdjustments call just made: the document passed, the
\* shifts, the paths edited since the call before, the baseline before the call,
\* and the document returned
HslCall(doc, h, s, l, ret) ==
    [op |-> "applyAdjustments", hue |-> h, saturation |-> s, lightness |-> l,
     animData |-> doc, edited |-> editedPaths, before |-> hslOriginalAnimData, ret |-> ret]

\* JSON.parse(JSON.stringify(x)) of the object ref among the objects cells: a new
\* object, added to them
JSONcopyShares(cells, ref) == [cells |-> cells, ref |-> ref]
JSONcopy(cells, ref) == [cells |-> Append(cells, DeepCopy(cells[ref])), ref |-> Len(cells) + 1]
\* the objects before a call: the document passed and, when one is held, the baseline
LiveCells == IF heap.original = 2 THEN <<animData, hslOriginalAnimData>> ELSE <<animData>>
\* lines 117-119 with setOriginalData (line 23): the object originalAnimData refers to
HeapCaptured(cells, original, passed) ==
    IF original = 0 THEN JSONcopy(cells, passed) ELSE [cells |-> cells, ref |-> original]
\* syncLockedColors (line 124) writes into the object originalAnimData refers to
\* (lines 176 and 182), the walk (line 132) into the object freshData refers to
\* (lines 267-269 and 339-341); r is what the call computes
HeapWalked(c, ref, r) == [cells |-> [c.cells EXCEPT ![c.ref] = r.ret], original |-> ref, ret |-> c.ref]
HeapSynced(c, r) ==
    IF r.ret = TypeError
    THEN [cells |-> [c.cells EXCEPT ![c.ref] = r.original], original |-> c.ref, ret |-> 0]
    ELSE HeapWalked(JSONcopy([c.cells EXCEPT ![c.ref] = r.original], c.ref), c.ref, r)
\* applyAdjustments(animData, ...) on the objects: the objects afterwards, the one
\* originalAnimData refers to and the one returned (0 when the call threw)
HeapCall(cells, c) ==
    [op |-> "applyAdjustments", pre |-> cells, post |-> c.cells, passed |-> 1,
     original |-> c.original, ret |-> c.ret]
\* this.animData = the object returned (part_001 line 375): the objects renumbered
HeapApplied(r) ==
    \E c \in {HeapSynced(HeapCaptured(LiveCells, heap.original, 1), r)} :
        heap' = Heap(IF c.ret = c.original THEN 1 ELSE 2, HeapCall(LiveCells, c))
\* a handler that calls no applyAdjustments and leaves the references as they are
HeapKept == heap' = Heap(heap.original, NoAlloc)

\* a shift after a call that gave r: the value passed; after a call that threw in
\* syncLockedColors, the value it had, or 0 when setOriginalData had just run (lines 22-27)
ShiftAfter(r, shift, value) ==
    IF r.ret # TypeError THEN value
    ELSE IF Truthy(hslOriginalAnimData) THEN shift ELSE 0

\* LottieEditor.applyHslAdjustments(hue, saturation, lightness), part_001 lines 372-380,
\* with the manager's applyAdjustments; locked is the lock set at the call, r what
\* applyAdjustments gives. A call that threw leaves animData as it was.
Applied(r, locked, h, s, l) ==
    /\ hslOriginalAnimData' = r.original
    /\ animData' = IF r.ret = TypeError THEN animData ELSE r.ret
    /\ hueShift' = ShiftAfter(r, hueShift, h)
    /\ saturationShift' = ShiftAfter(r, saturationShift, s)
    /\ lightnessShift' = ShiftAfter(r, lightnessShift, l)
    /\ hslCall' = HslCall(animData, h, s, l, r.ret)
    /\ capture' = [capture EXCEPT !.doc = IF capture.doc = Null THEN animData ELSE capture.doc,
                                  !.clean = capture.clean /\ locked = {}]
    /\ editedPaths' = {}
    /\ IF r.ret = TypeError THEN UNCHANGED extVars ELSE Extracted(animData', <<>>)
    /\ HeapApplied(r)
ApplyWith(locked, h, s, l) ==
    /\ Truthy(animData)
    /\ Applied(applyAdjustments(hslOriginalAnimData, animData, locked, h, s, l), locked, h, s, l)

\* the shifts the sliders are moved to: <<hue, saturation, lightness>>
Shifts == {<<0, 0, 0>>, <<120, 0, 0>>, <<-120, -100, 20>>}

\* one more operation on the document
Step == ops < MaxOps /\ ops' = ops + 1

\* a slider is moved: handleHslChange, part_001 lines 176-206
ApplyHslAdjustments(h, s, l) ==
    /\ Step
    /\ ApplyWith(lockedPaths, h, s, l)
    /\ UNCHANGED <<lockedPaths, edits, lockOps, histVars, edVars>>

\* togglePathLock(path), lines 91-99: the lock set afterwards
togglePathLock(locked, path) == IF path \in locked THEN locked \ {path} ELSE locked \cup {path}
hasAdjustments == hueShift # 0 \/ saturationShift # 0 \/ lightnessShift # 0

\* a lock button is clicked (part_003 lines 419-441 and 570-573, ungrouped), then the
\* onLockToggle callback (part_001 lines 75-82) re-applies the current adjustments
LockToggled(path) ==
    /\ lockOps' = lockOps + 1
    /\ lockedPaths' = togglePathLock(lockedPaths, path)
    /\ IF hasAdjustments
       THEN ApplyWith(lockedPaths', hueShift, saturationShift, lightnessShift)
       ELSE /\ hslCall' = NoHslCall
            /\ HeapKept
            /\ UNCHANGED <<animData, hslOriginalAnimData, hueShift, saturationShift, lightnessShift,
                           capture, editedPaths, extVars>>
    /\ UNCHANGED <<edits, histVars>>
LockClick(path) ==
    /\ Step
    /\ lockOps < MaxLockOps
    /\ LockToggled(path)
    /\ UNCHANGED edVars

\* lockPath(path), lines 65-67, called with the path of a container of colour sites
LockPath(path) ==
    /\ Step
    /\ lockOps < MaxLockOps
    /\ lockOps' = lockOps + 1
    /\ lockedPaths' = lockedPaths \cup {path}
    /\ hslCall' = NoHslCall
    /\ HeapKept
    /\ UNCHANGED <<animData, hslOriginalAnimData, hueShift, saturationShift, lightnessShift,
                   capture, editedPaths, edits, histVars, extVars, edVars>>

\* the picker's onChange for one instance, part_003 lines 449-477 and 582-598:
\* the document with the colour written through the instance's ref
WriteColor(doc, instance, hex) ==
    LET rgb == hexToRgb(hex)
        ref == GetPath(doc, instance.ref)
        i == instance.index.num
        new == <<Rat(rgb.r, 255), Rat(rgb.g, 255), Rat(rgb.b, 255)>>
        Stop(arr) == SetIdx(SetIdx(SetIdx(arr, i + 1, new[1]), i + 2, new[2]), i + 3, new[3])
    IN  IF instance.type \in {"solid", "stroke"}
        THEN IF hasOwnProperty(ref, "s")
             THEN PutPath(doc, instance.ref, Put(ref, "s", Arr(<<new[1], new[2], new[3], Int2Num(1)>>)))
             ELSE IF hasOwnProperty(ref, "k")
             THEN PutPath(doc, instance.ref, Put(ref, "k", Arr(<<new[1], new[2], new[3], Int2Num(1)>>)))
             ELSE doc
        ELSE IF hasOwnProperty(ref, "s") /\ IsArray(Get(ref, "s"))
             THEN PutPath(doc, instance.ref, Put(ref, "s", Stop(Get(ref, "s"))))
             ELSE IF hasOwnProperty(ref, "k") /\ IsArray(Get(ref, "k"))
             THEN PutPath(doc, instance.ref, Put(ref, "k", Stop(Get(ref, "k"))))
             ELSE doc

\* the colours picked
PickedColors == {HexOf(255, 128, 0)}

PickColor(instance, hex) ==
    /\ Step
    /\ edits < MaxEdits
    /\ edits' = edits + 1
    /\ animData' = WriteColor(animData, instance, hex)
    /\ Extracted(animData', <<instance, hex>>)
    /\ editedPaths' = editedPaths \cup {instance.path}
    /\ hslCall' = NoHslCall
    /\ HeapKept
    /\ UNCHANGED <<hslOriginalAnimData, hueShift, saturationShift, lightnessShift, lockedPaths,
                   capture, lockOps, histVars, edVars>>

\* clear(), lines 362-367
HslClear ==
    /\ Step
    /\ hslOriginalAnimData' = Null
    /\ hueShift' = 0
    /\ saturationShift' = 0
    /\ lightnessShift' = 0
    /\ capture' = NoCapture
    /\ hslCall' = NoHslCall
    /\ heap' = Heap(0, NoAlloc)
    /\ UNCHANGED <<animData, lockedPaths, editedPaths, edits, lockOps, histVars, extVars, edVars>>

----------------------------------------------------------------------------
(* The documents *)

Color(r, g, b) == <<Rat(r, 255), Rat(g, 255), Rat(b, 255)>>
Rgba(c) == Arr(<<c[1], c[2], c[3], Int2Num(1)>>)
StaticColor(c) == Obj("a" :> Int2Num(0) @@ "k" :> Rgba(c))
Keyframe(t, arr) == Obj("t" :> Int2Num(t) @@ "s" :> arr)
AnimatedColor(c1, c2) == Obj("a" :> Int2Num(1) @@ "k" :> Arr(<<Keyframe(0, Rgba(c1)), Keyframe(30, Rgba(c2))>>))
\* stops [offset, r, g, b]: one at 0; two, at 0 and at 1
Stop(c1) == Arr(<<Int2Num(0), c1[1], c1[2], c1[3]>>)
Stops(c1, c2) == Arr(<<Int2Num(0), c1[1], c1[2], c1[3], Int2Num(1), c2[1], c2[2], c2[3]>>)
Shape(ty, key, prop) == Obj("ty" :> Str(ty) @@ key :> prop)
Document(shapes) == Obj("layers" :> Arr(<<Obj("ty" :> Int2Num(4) @@ "shapes" :> Arr(shapes))>>))

Red == Color(255, 0, 0)
Blue == Color(0, 0, 255)
Teal == Color(0, 128, 128)
\* a colour whose channels are no multiples of 1/255
Amber == <<Rat(3, 4), Rat(1, 4), Int2Num(0)>>

\* a static fill and a static stroke colour, the stroke half transparent
DocSolids ==
    Document(<<Shape("fl", "c", StaticColor(Red)),
               Shape("st", "sc", Obj("a" :> Int2Num(0) @@ "k" :> Arr(<<Blue[1], Blue[2], Blue[3], Rat(1, 2)>>)))>>)
\* an animated stroke of two keyframes
DocAnimated == Document(<<Shape("st", "c", AnimatedColor(Blue, Teal))>>)
\* a gradient fill in the wrapped static encoding, with its stop count; two opacity
\* stops [offset, alpha] follow the colour stops
DocGradient ==
    Document(<<Shape("gf", "g", Obj("p" :> Int2Num(2) @@ "k" :> Obj("a" :> Int2Num(0) @@ "k" :>
                    Arr(Stops(Red, Amber).e \o <<Int2Num(0), Int2Num(1), Int2Num(1), Rat(1, 2)>>))))>>)
\* an animated gradient stroke of two keyframes, with its stop count
DocAnimatedGradient ==
    Document(<<Shape("gs", "g", Obj("p" :> Int2Num(1) @@ "k" :> Obj("a" :> Int2Num(1) @@ "k" :>
                    Arr(<<Keyframe(0, Stop(Red)), Keyframe(30, Stop(Teal))>>))))>>)
\* a gradient fill in the flat static encoding, without a stop count
DocFlatGradient == Document(<<Shape("gf", "g", Obj("k" :> Stops(Blue, Red)))>>)
\* a repeater whose number of copies, its property c, is animated from 3 to 6
DocRepeater ==
    Document(<<Shape("rp", "c", Obj("a" :> Int2Num(1) @@ "k" :>
                    Arr(<<Keyframe(0, Arr(<<Int2Num(3)>>)), Keyframe(30, Arr(<<Int2Num(6)>>))>>)))>>)
Docs == {DocSolids, DocAnimated, DocGradient, DocAnimatedGradient, DocFlatGradient, DocRepeater}

\* the paths of the colour sites of a document, and the paths of their containers
\* from the layer down
SitePaths(doc) == {i.path : i \in Instances(doc)}
Prefixes(path) == {SubSeq(path, 1, n) : n \in 2..(Len(path) - 1)}
ContainerPaths(doc) == UNION {Prefixes(q) : q \in SitePaths(doc)}

HistIdle ==
    /\ MAX_HISTORY = 1
    /\ historyStack = <<>>
    /\ redoStack = <<>>
    /\ lastCall = NoCall
    /\ saveRun = EmptyRun

\* a document is loaded and a fresh HslAdjustManager stands beside it (lines 8-16)
InitHsl ==
    /\ animData \in Docs
    /\ hslOriginalAnimData = Null
    /\ hueShift = 0
    /\ saturationShift = 0
    /\ lightnessShift = 0
    /\ lockedPaths = {}
    /\ hslCall = NoHslCall
    /\ capture = NoCapture
    /\ editedPaths = {}
    /\ edits = 0
    /\ lockOps = 0
    /\ ops = 0
    /\ heap = Heap(0, NoAlloc)
    /\ extractCall = [op |-> "extractColors", obj |-> animData, pre |-> NoGroups,
                      kept |-> extractColors(animData), thrown |-> FALSE,
                      ret |-> extractColors(animData), written |-> <<>>]
    /\ groupedColors = ExtractorGroups(NoGroups, animData, extractCall.kept)
    /\ HistIdle
    /\ originalAnimData = animData
    /\ pending = <<>>
    /\ picker = Null
    /\ edCall = NoEdCall
    /\ mergeCall = NoMergeCall
    /\ objects = NoObjects

NextHsl ==
    \/ \E sh \in Shifts : ApplyHslAdjustments(sh[1], sh[2], sh[3])
    \/ \E path \in SitePaths(animData) : LockClick(path)
    \/ \E path \in ContainerPaths(animData) : LockPath(path)
    \/ \E instance \in Instances(animData), hex \in PickedColors : PickColor(instance, hex)
    \/ HslClear

SpecHsl == InitHsl /\ [][NextHsl]_vars

----------------------------------------------------------------------------
(* The locator alone: extractColors called on one ColorExtractor, time after time *)

\* one static fill, one animated stroke with three keyframes, one static gradient
\* of three colour stops (followed by two opacity stops when it carries p)
ThreeKeyframes ==
    Obj("a" :> Int2Num(1) @@ "k" :> Arr(<<Keyframe(0, Rgba(Red)), Keyframe(15, Rgba(Blue)),
                                          Keyframe(30, Rgba(Teal))>>))
ThreeStops == Stops(Red, Blue).e \o Stop(Teal).e
DocSeven ==
    Document(<<Shape("fl", "c", StaticColor(Amber)),
               Shape("st", "c", ThreeKeyframes),
               Shape("gf", "g", Obj("p" :> Int2Num(3) @@ "k" :> Obj("a" :> Int2Num(0) @@ "k" :>
                    Arr(ThreeStops \o <<Int2Num(0), Int2Num(1), Int2Num(1), Rat(1, 2)>>))))>>)
DocSevenNoCount ==
    Document(<<Shape("fl", "c", StaticColor(Red)),
               Shape("st", "c", ThreeKeyframes),
               Shape("gf", "g", Obj("k" :> Arr(ThreeStops)))>>)
\* malformed colour nodes: a null keyframe, a keyframe that is a number, a colour
\* whose k is a number, a fill of an unknown shape type
DocNullKeyframe ==
    Document(<<Shape("fl", "c", StaticColor(Red)),
               Shape("fl", "c", Obj("a" :> Int2Num(1) @@ "k" :> Arr(<<Keyframe(0, Rgba(Blue)), Null>>)))>>)
DocNumberKeyframe ==
    Document(<<Shape("st", "c", Obj("a" :> Int2Num(1) @@ "k" :> Arr(<<Int2Num(7), Keyframe(0, Rgba(Blue))>>)))>>)
DocScalarColor ==
    Document(<<Shape("fl", "c", Obj("a" :> Int2Num(0) @@ "k" :> Int2Num(1))),
               Shape("el", "c", StaticColor(Teal))>>)
NonObjects == {Null, Int2Num(5), Str("fl")}
ExtractInputs ==
    Docs \cup {DocSeven, DocSevenNoCount, DocNullKeyframe, DocNumberKeyframe, DocScalarColor}
         \cup NonObjects

\* colorExtractor.extractColors(obj)
ExtractColors(obj) ==
    /\ Extracted(obj, <<>>)
    /\ UNCHANGED <<histVars, hslVars, edVars>>

InitExtract ==
    /\ ExtractIdle
    /\ HslIdle
    /\ HistIdle
    /\ EditorIdle

NextExtract == \E obj \in ExtractInputs : ExtractColors(obj)

SpecExtract == InitExtract /\ [][NextExtract]_vars

----------------------------------------------------------------------------
(* The editor: files are loaded one after another into one LottieEditor, whose *)
(* HistoryManager, HslAdjustManager and ColorExtractor live as long as it does *)

\* a file whose first shape is null
DocNullShape == Document(<<Null, Shape("fl", "c", StaticColor(Teal))>>)
Files == {DocSolids, DocGradient, DocNullShape}

\* new HistoryManager(20), part_001 line 24
EditorMaxHistory == 20

\* the state saveState() hands to the HistoryManager, part_001 lines 285-291
EditorState ==
    Obj("animData" :> animData @@
        "hsl" :> Obj("hue" :> Int2Num(hueShift) @@ "saturation" :> Int2Num(saturationShift)
                     @@ "lightness" :> Int2Num(lightnessShift)))
\* this.saveState() on the stacks as they stand
EditorSaveState(p) ==
    /\ SaveStateStacks(p)
    /\ lastCall' = Call("saveState", p, Undefined)
    /\ saveRun' = ExtendRun(p)
    /\ UNCHANGED MAX_HISTORY
\* this.historyManager.clear(); this.saveState(), part_001 lines 251-252
ClearThenSaveState(p) ==
    /\ historyStack' = PushTrimmed(<<>>, DeepCopy(p))
    /\ redoStack' = <<>>
    /\ lastCall' = [op |-> "saveState", arg |-> p, ret |-> Undefined, preHistory |-> <<>>, preRedo |-> <<>>]
    /\ saveRun' = [ok |-> TRUE, seq |-> <<p>>]
    /\ UNCHANGED MAX_HISTORY

\* the record of a handler that changed the HSL state: what the state was before it
EditorCall(op, ret) ==
    [op |-> op, hue |-> hueShift, saturation |-> saturationShift, lightness |-> lightnessShift,
     locked |-> lockedPaths, before |-> hslOriginalAnimData, ret |-> ret]

\* handleFile(file), part_001 lines 247-274, once loadFile has resolved with doc; a
\* throw of extractColors in initializeColorEditor is caught at line 275
Loaded(doc) ==
    /\ originalAnimData' = doc
    /\ animData' = DeepCopy(doc)
    /\ ClearThenSaveState(Obj("animData" :> DeepCopy(doc) @@ "hsl" :> Get(EditorState, "hsl")))
    /\ hslOriginalAnimData' = Null
    /\ hueShift' = 0
    /\ saturationShift' = 0
    /\ lightnessShift' = 0
    /\ Extracted(animData', <<>>)
    /\ hslCall' = EditorCall("handleFile", Undefined)
    /\ heap' = Heap(0, NoAlloc)
    /\ capture' = [doc |-> Null, clean |-> TRUE, dropped |-> hslOriginalAnimData]
    /\ editedPaths' = {}
    /\ UNCHANGED <<lockedPaths, edits, lockOps>>
\* handleFile(file), lines 239-280, for a file that parses to doc, when the load
\* settles before the next event
HandleFile(doc) ==
    /\ Step
    /\ Loaded(doc)
    /\ UNCHANGED <<pending, picker, edCall, mergeCall, objects>>

\* reset(), lines 349-358: what it returns
resetReturnsNull(original) == Null
reset(original) == IF Truthy(original) THEN DeepCopy(original) ELSE Null

\* resetHslAdjustments(), part_001 lines 400-424 (the reset button)
ResetHslAdjustments ==
    /\ Step
    /\ Truthy(animData)
    /\ EditorSaveState(EditorState)
    /\ lockedPaths' = {}
    /\ hueShift' = 0
    /\ saturationShift' = 0
    /\ lightnessShift' = 0
    /\ animData' = IF Truthy(reset(hslOriginalAnimData))
                   THEN reset(hslOriginalAnimData) ELSE animData
    /\ Extracted(animData', <<>>)
    /\ hslCall' = EditorCall("reset", reset(hslOriginalAnimData))
    /\ heap' = Heap(IF heap.original = 0 THEN 0 ELSE 2, NoAlloc)
    /\ editedPaths' = {}
    /\ UNCHANGED <<hslOriginalAnimData, capture, edits, lockOps, edVars>>

\* the paths lockPath is called with: the colour sites of the files
LockablePaths == UNION {SitePaths(d) : d \in Files}

\* new LottieEditor(), part_001 lines 20-30: no file is loaded
InitEditor ==
    /\ MAX_HISTORY = EditorMaxHistory
    /\ historyStack = <<>>
    /\ redoStack = <<>>
    /\ lastCall = NoCall
    /\ saveRun = EmptyRun
    /\ HslIdle
    /\ ExtractIdle
    /\ EditorIdle

NextEditor ==
    \/ \E doc \in Files : HandleFile(doc)
    \/ \E sh \in Shifts : ApplyHslAdjustments(sh[1], sh[2], sh[3])
    \/ \E path \in SitePaths(animData) : LockClick(path)
    \/ \E path \in LockablePaths : LockPath(path)
    \/ ResetHslAdjustments

SpecEditor == InitEditor /\ [][NextEditor]_vars

----------------------------------------------------------------------------
(* The editing session: pickers, gradient stop positions, HSL sliders, undo and *)
(* redo on a loaded file                                                        *)

\* operations of one editing session
MaxSessionOps == 6
SessionStep == ops < MaxSessionOps /\ ops' = ops + 1

\* the state saveState() saves when the working document is doc and the shifts are sh
EditorStateOf(doc, sh) ==
    Obj("animData" :> doc @@
        "hsl" :> Obj("hue" :> Int2Num(sh[1]) @@ "saturation" :> Int2Num(sh[2])
                     @@ "lightness" :> Int2Num(sh[3])))
\* the handlers that edit the document, and those that leave it as it is
EditHandlers == {"pickerChange", "positionChange", "sliderInput"}
IdleHandlers == {"pickerOpen", "pickerClose", "positionFocus"}
\* what the handler found: the handler before it, the document, the shifts, the
\* stacks, the open picker. undone: an undo has restored a state and no handler has
\* edited the document or moved in the history since; forward: this handler made
\* the first change of the document since such an undo; afterForward: the handler
\* before it did; afterRestore: the handler before it was an undoChange or a
\* redoChange that restored a state
EdCall(op, arg) ==
    [op |-> op, arg |-> arg, prev |-> edCall.op, animData |-> animData,
     originalAnimData |-> originalAnimData,
     hsl |-> <<hueShift, saturationShift, lightnessShift>>,
     baseline |-> hslOriginalAnimData, locked |-> lockedPaths,
     historyStack |-> historyStack, redoStack |-> redoStack, picker |-> picker,
     undone |-> IF op = "undoChange" THEN arg # Null ELSE op \in IdleHandlers /\ edCall.undone,
     forward |-> op \in EditHandlers /\ edCall.undone /\ animData' # animData,
     afterForward |-> edCall.forward,
     afterRestore |-> edCall.op \in {"undoChange", "redoChange"} /\ edCall.arg # Null]
\* the HslAdjustManager is not called
HslKept ==
    /\ hslCall' = NoHslCall
    /\ HeapKept
    /\ UNCHANGED <<hslOriginalAnimData, hueShift, saturationShift, lightnessShift, lockedPaths,
                   capture, lockOps>>

\* ColorPicker.open(), ColorPicker.js lines 526-546, with onOpen: () => this.onSaveState()
\* (part_003 lines 497 and 607)
PickerOpen ==
    /\ SessionStep
    /\ Truthy(animData)
    /\ picker = Null
    /\ EditorSaveState(EditorState)
    /\ picker' = [opened |-> animData, changes |-> 0]
    /\ edCall' = EdCall("pickerOpen", Null)
    /\ HslKept
    /\ UNCHANGED <<animData, editedPaths, edits, extVars, originalAnimData, pending, mergeCall, objects>>
\* the onChange of the open picker, part_003 lines 450-496 and 582-606
PickerChange(instance, hex) ==
    /\ SessionStep
    /\ picker # Null
    /\ animData' = WriteColor(animData, instance, hex)
    /\ Extracted(animData', <<instance, hex>>)
    /\ editedPaths' = editedPaths \cup {instance.path}
    /\ picker' = [picker EXCEPT !.changes = IF @ < 2 THEN @ + 1 ELSE 2]
    /\ edCall' = EdCall("pickerChange", instance)
    /\ HslKept
    /\ UNCHANGED <<edits, histVars, originalAnimData, pending, mergeCall, objects>>
\* ColorPicker.close(): no callback is registered for onClose
PickerClose ==
    /\ SessionStep
    /\ picker # Null
    /\ picker' = Null
    /\ edCall' = EdCall("pickerClose", Null)
    /\ HslKept
    /\ UNCHANGED <<animData, editedPaths, edits, histVars, extVars, originalAnimData, pending, mergeCall, objects>>

\* parseFloat of the texts typed into a position input (NaN when it starts with no number)
PositionTexts == {"1.2", "0.25", "", "abc"}
parseFloat(text) ==
    CASE text = "1.2" -> Rat(6, 5)
      [] text = "0.25" -> Rat(1, 4)
      [] OTHER -> NaN

\* stops.sort((a, b) => a[0] - b[0]), part_003 line 685: a stable sort; a chunk
\* comes before another when the difference of their first elements is negative
ComesBefore(a, b) == a # <<>> /\ b # <<>> /\ IsNum(a[1]) /\ IsNum(b[1]) /\ RLt(a[1], b[1])
RECURSIVE InsertStop(_, _)
InsertStop(sorted, chunk) ==
    IF sorted = <<>> THEN <<chunk>>
    ELSE IF ComesBefore(chunk, Last(sorted))
    THEN Append(InsertStop(Front(sorted), chunk), Last(sorted))
    ELSE Append(sorted, chunk)
RECURSIVE SortStopsFrom(_, _)
SortStopsFrom(stops, n) ==
    IF n = 0 THEN <<>> ELSE InsertStop(SortStopsFrom(stops, n - 1), stops[n])
SortStopsKeepsOrder(stops) == stops
SortStops(stops) == SortStopsFrom(stops, Len(stops))

\* lines 676-683: the number of turns of for (i = 0; i < numStops; i++), and the chunks
\* arr.slice(start, start + 4)
PositionNumStops(c, arr) ==
    IF Truthy(c.stopCount) THEN c.stopCount ELSE Int2Num(Len(arr.e) \div 4)
Turns(numStops) ==
    IF numStops.t # "num" \/ numStops.num <= 0 THEN 0
    ELSE (numStops.num + numStops.den - 1) \div numStops.den
Slice(arr, start, end) ==
    SubSeq(arr.e, start + 1, IF end < Len(arr.e) THEN end ELSE Len(arr.e))
Chunks(arr, n) == [i \in 1..n |-> Slice(arr, 4 * (i - 1), 4 * i)]
\* lines 687-692: arr[start + j] = stops[i][j]
WrittenBack(arr, stops) ==
    LET n == 4 * Len(stops)
        len == IF n > Len(arr.e) THEN n ELSE Len(arr.e)
    IN  Arr([q \in 1..len |->
            IF q <= n
            THEN LET chunk == stops[((q - 1) \div 4) + 1]
                     j == ((q - 1) % 4) + 1
                 IN  IF j <= Len(chunk) THEN chunk[j] ELSE Undefined
            ELSE arr.e[q]])
\* lines 672-692: the stop array afterwards
Repositioned(c, arr, newOffset) ==
    LET moved == SetIdx(arr, c.index.num, newOffset)
    IN  WrittenBack(moved, SortStops(Chunks(moved, Turns(PositionNumStops(c, moved)))))
\* the key of c.ref that holds the stop array (lines 665-669), "" when none does
StopArrayKey(ref) ==
    IF hasOwnProperty(ref, "s") /\ IsArray(Get(ref, "s")) THEN "s"
    ELSE IF hasOwnProperty(ref, "k") /\ IsArray(Get(ref, "k")) THEN "k"
    ELSE ""
\* handleGradientPositionInput(input, c), lines 660-697: the document afterwards
handleGradientPositionInput(doc, c, text) ==
    LET ref == GetPath(doc, c.ref)
        key == StopArrayKey(ref)
    IN  IF parseFloat(text) = NaN \/ key = "" THEN doc
        ELSE PutPath(doc, c.ref, Put(ref, key, Repositioned(c, Get(ref, key), parseFloat(text))))

\* posInput.onfocus, part_003 line 632
PositionFocus ==
    /\ SessionStep
    /\ Truthy(animData)
    /\ EditorSaveState(EditorState)
    /\ edCall' = EdCall("positionFocus", Null)
    /\ HslKept
    /\ UNCHANGED <<animData, editedPaths, edits, extVars, originalAnimData, pending, picker, mergeCall, objects>>
\* posInput.onchange, lines 633-636: handleGradientPositionInput, whose callback
\* (part_001 lines 67-72) extracts again, then saveState()
PositionChange(c, text) ==
    /\ SessionStep
    /\ animData' = handleGradientPositionInput(animData, c, text)
    /\ IF parseFloat(text) = NaN THEN UNCHANGED extVars ELSE Extracted(animData', <<>>)
    /\ EditorSaveState(EditorStateOf(animData', <<hueShift, saturationShift, lightnessShift>>))
    /\ picker' = IF parseFloat(text) = NaN THEN picker ELSE Null
    /\ edCall' = EdCall("positionChange", [c |-> c, text |-> text])
    /\ HslKept
    /\ UNCHANGED <<editedPaths, edits, originalAnimData, pending, mergeCall, objects>>

\* a slider is moved (oninput, part_001 lines 208-210): handleHslChange(false)
SliderInput(h, s, l) ==
    /\ SessionStep
    /\ ApplyWith(lockedPaths, h, s, l)
    /\ picker' = IF hslCall'.ret = TypeError THEN picker ELSE Null
    /\ edCall' = EdCall("sliderInput", <<h, s, l>>)
    /\ UNCHANGED <<lockedPaths, edits, lockOps, histVars, originalAnimData, pending, mergeCall, objects>>
\* the slider is released (onchange, lines 218-221): saveState()
SliderRelease ==
    /\ SessionStep
    /\ Truthy(animData)
    /\ edCall.op = "sliderInput"
    /\ EditorSaveState(EditorState)
    /\ edCall' = EdCall("sliderRelease", Null)
    /\ HslKept
    /\ UNCHANGED <<animData, editedPaths, edits, extVars, originalAnimData, pending, picker, mergeCall, objects>>

\* the shifts of a saved state (lines 301-308)
ShiftOf(state, name) == Get(Get(state, "hsl"), name).num
\* lines 310-316 and 341-347: the state returned becomes the working state, and the
\* colour list is rendered again, which destroys the pickers (part_003 lines 299-300)
Restored(state) ==
    /\ picker' = Null
    /\ animData' = Get(state, "animData")
    /\ hueShift' = ShiftOf(state, "hue")
    /\ saturationShift' = ShiftOf(state, "saturation")
    /\ lightnessShift' = ShiftOf(state, "lightness")
    /\ Extracted(animData', <<>>)
\* undoChange(), part_001 lines 296-317
UndoChange ==
    /\ SessionStep
    /\ edCall' = EdCall("undoChange", UndoResult.ret)
    /\ historyStack' = UndoResult.history
    /\ redoStack' = UndoResult.redo
    /\ lastCall' = Call("undo", Null, UndoResult.ret)
    /\ saveRun' = BrokenRun
    /\ IF UndoResult.ret = Null
       THEN UNCHANGED <<animData, hueShift, saturationShift, lightnessShift, extVars, picker>>
       ELSE Restored(UndoResult.ret)
    /\ hslCall' = NoHslCall
    /\ HeapKept
    /\ UNCHANGED <<MAX_HISTORY, hslOriginalAnimData, lockedPaths, capture, lockOps, editedPaths, edits,
                   originalAnimData, pending, mergeCall, objects>>
\* redoChange(), lines 322-348
RedoChange ==
    /\ SessionStep
    /\ \E r \in {RedoResult(EditorState)} :
        /\ edCall' = EdCall("redoChange", r.ret)
        /\ historyStack' = r.history
        /\ redoStack' = r.redo
        /\ lastCall' = Call("redo", EditorState, r.ret)
        /\ IF r.ret = Null
           THEN UNCHANGED <<animData, hueShift, saturationShift, lightnessShift, extVars, picker>>
           ELSE Restored(r.ret)
    /\ saveRun' = BrokenRun
    /\ hslCall' = NoHslCall
    /\ HeapKept
    /\ UNCHANGED <<MAX_HISTORY, hslOriginalAnimData, lockedPaths, capture, lockOps, editedPaths, edits,
                   originalAnimData, pending, mergeCall, objects>>

\* the first file is loaded into the new editor
OpenFile(doc) == ops = 0 /\ HandleFile(doc)
\* the gradient stops shown with a position input
GradientStops(doc) == {c \in Instances(doc) : c.type = "gradient"}

\* gradient stop positions: files with gradients in every encoding, two and three
\* stops, with and without a stop count, with and without opacity stops
MaxPositionOps == 3
GradientFiles == {DocGradient, DocFlatGradient, DocAnimatedGradient, DocSeven, DocSevenNoCount}
NextGradient ==
    \/ \E doc \in GradientFiles : OpenFile(doc)
    \/ ops < MaxPositionOps /\ PositionFocus
    \/ \E c \in GradientStops(animData), text \in PositionTexts : ops < MaxPositionOps /\ PositionChange(c, text)
SpecGradient == InitEditor /\ [][NextGradient]_vars

\* an editing session on one file: a fill, a half transparent stroke and a gradient
DocSession ==
    Document(<<Shape("fl", "c", StaticColor(Red)),
               Shape("st", "sc", Obj("a" :> Int2Num(0) @@ "k" :> Arr(<<Blue[1], Blue[2], Blue[3], Rat(1, 2)>>))),
               Shape("gf", "g", Obj("p" :> Int2Num(2) @@ "k" :> Obj("a" :> Int2Num(0) @@ "k" :>
                    Arr(Stops(Teal, Amber).e \o <<Int2Num(0), Int2Num(1), Int2Num(1), Rat(1, 2)>>))))>>)
SessionShifts == {<<120, 0, 0>>}
SessionTexts == {"0.25"}
NextSession ==
    \/ OpenFile(DocSession)
    \/ PickerOpen
    \/ \E c \in Instances(animData), hex \in PickedColors : PickerChange(c, hex)
    \/ PickerClose
    \/ PositionFocus
    \/ \E c \in GradientStops(animData), text \in SessionTexts : PositionChange(c, text)
    \/ \E sh \in SessionShifts : SliderInput(sh[1], sh[2], sh[3])
    \/ SliderRelease
    \/ UndoChange
    \/ RedoChange
SpecSession == InitEditor /\ [][NextSession]_vars

----------------------------------------------------------------------------
(* Loading files: handleFile awaits FileHandler.loadFile, and a second file can *)
(* be dropped while the first is still being read                               *)

\* a file: whether its name ends in .tgs, whether its bytes are gzip data, and the
\* text they hold (the text of a JSON document is represented by the value it
\* denotes; NotJson is a text JSON.parse rejects)
NotJson == [t |-> "SyntaxError"]
File(tgs, gz, text) == [tgs |-> tgs, gz |-> gz, text |-> text]
\* a promise that rejected with an error, and one that resolved with a value
Rejected(error) == [rejected |-> TRUE, error |-> error]
Resolved(value) == [rejected |-> FALSE, value |-> value]
\* JSON.parse(text), part_005 line 29
Parsed(text) == IF text = NotJson THEN Rejected("SyntaxError") ELSE Resolved(JSONparse(text))
\* loadFile(file), part_005 lines 10-30: pako.ungzip throws on bytes that are no
\* gzip data, and gzip data read as text is no JSON
loadFile(file) ==
    IF file.tgs
    THEN IF file.gz THEN Parsed(file.text) ELSE Rejected("incorrect header check")
    ELSE IF file.gz THEN Rejected("SyntaxError") ELSE Parsed(file.text)

FileSolids == File(FALSE, FALSE, JSONstringify(DocSolids))
FileGradient == File(TRUE, TRUE, JSONstringify(DocGradient))
FileNotJson == File(FALSE, FALSE, NotJson)
FileNotGzip == File(TRUE, FALSE, JSONstringify(DocSolids))
LoadFiles == {FileSolids, FileGradient, FileNotJson, FileNotGzip}
\* loads requested in one session
MaxLoads == 3

\* handleFile(file), part_001 lines 239-245, up to the await: the promise is pending.
\* overlapped: an earlier load was still pending when this one was requested
HandleFileStart(file) ==
    /\ SessionStep
    /\ Len(pending) < MaxLoads
    /\ pending' = Append(pending, [file |-> file, settled |-> FALSE,
                                   overlapped |-> \E i \in 1..Len(pending) : ~pending[i].settled])
    /\ edCall' = EdCall("handleFile", file)
    /\ HslKept
    /\ UNCHANGED <<animData, editedPaths, edits, histVars, extVars, originalAnimData, picker, mergeCall, objects>>

\* the catch of lines 275-279: the error is logged and shown
CaughtClearsHistory ==
    /\ historyStack' = <<>>
    /\ redoStack' = <<>>
    /\ HslKept
    /\ UNCHANGED <<MAX_HISTORY, lastCall, saveRun, animData, editedPaths, edits, extVars,
                   originalAnimData, picker, mergeCall, objects>>
Caught ==
    /\ HslKept
    /\ UNCHANGED <<histVars, animData, editedPaths, edits, extVars, originalAnimData, picker, mergeCall, objects>>

\* the promise of the i-th load settles and handleFile runs on: lines 247-274 when
\* it resolved, the catch when it rejected
LoadSettled(i) ==
    /\ SessionStep
    /\ ~pending[i].settled
    /\ pending' = [pending EXCEPT ![i].settled = TRUE]
    /\ \E result \in {loadFile(pending[i].file)} :
        IF result.rejected
        THEN /\ edCall' = EdCall("loadFailed", i)
             /\ Caught
        ELSE /\ edCall' = EdCall("loaded", i)
             /\ Loaded(result.value)
             /\ picker' = Null
             /\ UNCHANGED <<mergeCall, objects>>

NextLoads ==
    \/ \E file \in LoadFiles : HandleFileStart(file)
    \/ \E i \in 1..Len(pending) : LoadSettled(i)
    \/ \E sh \in SessionShifts : SliderInput(sh[1], sh[2], sh[3])
    \/ SliderRelease
SpecLoads == InitEditor /\ [][NextLoads]_vars

----------------------------------------------------------------------------
(* FileHandler.deepTraverseAndCopyColors and ExportManager.export. The target is *)
(* given as the value the call leaves in place of the one it was passed, with    *)
(* the paths of the properties it assigned.                                      *)

\* part_005 line 38: the guard of a call
MergeGuard(sourceObj, targetObj) ==
    Truthy(sourceObj) /\ IsObjectType(sourceObj) /\ Truthy(targetObj) /\ IsObjectType(targetObj)

\* lines 53-58, key c or sc: the test and the assignment targetObj[key].k = sourceObj[key].k
CopiesColorUnguarded(sourceObj, targetObj, key) ==
    /\ Truthy(Get(sourceObj, key)) /\ Truthy(Get(Get(sourceObj, key), "k"))
    /\ Truthy(Get(targetObj, key))
    /\ IsArray(Get(Get(sourceObj, key), "k"))
CopiesColor(sourceObj, targetObj, key) ==
    /\ Truthy(Get(sourceObj, key)) /\ Truthy(Get(Get(sourceObj, key), "k"))
    /\ Truthy(Get(targetObj, key)) /\ Truthy(Get(Get(targetObj, key), "k"))
    /\ IsArray(Get(Get(sourceObj, key), "k"))
\* lines 61-64, key g with an array k
CopiesFlatGradient(sourceObj, targetObj) ==
    /\ Truthy(Get(sourceObj, "g")) /\ IsArray(Get(Get(sourceObj, "g"), "k"))
    /\ Truthy(Get(targetObj, "g")) /\ IsArray(Get(Get(targetObj, "g"), "k"))
\* lines 65-68, key g with an array k.k
CopiesWrappedGradientNever(sourceObj, targetObj) == FALSE
CopiesWrappedGradient(sourceObj, targetObj) ==
    /\ ~(Truthy(Get(sourceObj, "g")) /\ IsArray(Get(Get(sourceObj, "g"), "k")))
    /\ Truthy(Get(sourceObj, "g")) /\ Truthy(Get(Get(sourceObj, "g"), "k"))
    /\ IsArray(Get(Get(Get(sourceObj, "g"), "k"), "k"))
    /\ Truthy(Get(targetObj, "g")) /\ Truthy(Get(Get(targetObj, "g"), "k"))
    /\ IsArray(Get(Get(Get(targetObj, "g"), "k"), "k"))
\* lines 45 and 70-71: the call recurses into the property and passes the guard there
Descends(sourceObj, targetObj, key) ==
    /\ IF IsArray(sourceObj) THEN Truthy(Get(targetObj, key))
       ELSE key \notin {"c", "sc", "g"} /\ IsObjectType(Get(sourceObj, key)) /\ Get(sourceObj, key) # Null
    /\ MergeGuard(Get(sourceObj, key), Get(targetObj, key))

RECURSIVE deepTraverseAndCopyColors(_, _)
\* one turn of the loop of lines 43-47 or 49-73
MergeKey(sourceObj, targetObj, key) ==
    IF Descends(sourceObj, targetObj, key)
    THEN Put(targetObj, key, deepTraverseAndCopyColors(Get(sourceObj, key), Get(targetObj, key)))
    ELSE IF IsArray(sourceObj) THEN targetObj
    ELSE IF key \in {"c", "sc"} /\ CopiesColor(sourceObj, targetObj, key)
    THEN Put(targetObj, key, Put(Get(targetObj, key), "k", Get(Get(sourceObj, key), "k")))
    ELSE IF key = "g" /\ CopiesFlatGradient(sourceObj, targetObj)
    THEN Put(targetObj, key, Put(Get(targetObj, key), "k", Get(Get(sourceObj, key), "k")))
    ELSE IF key = "g" /\ CopiesWrappedGradient(sourceObj, targetObj)
    THEN Put(targetObj, key, Put(Get(targetObj, key), "k",
                Put(Get(Get(targetObj, key), "k"), "k", Get(Get(Get(sourceObj, key), "k"), "k"))))
    ELSE targetObj
RECURSIVE MergeFrom(_, _, _, _)
MergeFrom(sourceObj, targetObj, keys, j) ==
    IF j > Len(keys) THEN targetObj
    ELSE MergeFrom(sourceObj, MergeKey(sourceObj, targetObj, keys[j]), keys, j + 1)
\* deepTraverseAndCopyColors(sourceObj, targetObj), lines 37-75: the target afterwards
deepTraverseAndCopyColors(sourceObj, targetObj) ==
    IF ~MergeGuard(sourceObj, targetObj) THEN targetObj
    ELSE MergeFrom(sourceObj, targetObj, OrderedKeys(sourceObj), 1)

\* the paths, from the root of the target, of the properties the call assigns
\* (lines 56, 63 and 67)
RECURSIVE MergeWrites(_, _, _)
MergeKeyWrites(sourceObj, targetObj, key, path) ==
    IF Descends(sourceObj, targetObj, key)
    THEN MergeWrites(Get(sourceObj, key), Get(targetObj, key), Append(path, key))
    ELSE IF IsArray(sourceObj) THEN {}
    ELSE IF key \in {"c", "sc"} /\ CopiesColor(sourceObj, targetObj, key) THEN {path \o <<key, "k">>}
    ELSE IF key = "g" /\ CopiesFlatGradient(sourceObj, targetObj) THEN {path \o <<key, "k">>}
    ELSE IF key = "g" /\ CopiesWrappedGradient(sourceObj, targetObj) THEN {path \o <<key, "k", "k">>}
    ELSE {}
MergeWrites(sourceObj, targetObj, path) ==
    IF ~MergeGuard(sourceObj, targetObj) THEN {}
    ELSE UNION {MergeKeyWrites(sourceObj, targetObj, key, path) : key \in Keys(sourceObj)}

\* a property read x.k throws when x is null or undefined; the reads of lines 53-67
\* are those of sourceObj[key].k, targetObj[key].k, and the two .k.k
ReadThrows(x) == x.t \in {"null", "undefined"}
RECURSIVE MergeThrows(_, _)
MergeKeyThrows(sourceObj, targetObj, key) ==
    LET s == Get(sourceObj, key)
        t == Get(targetObj, key)
    IN  IF Descends(sourceObj, targetObj, key) THEN MergeThrows(s, t)
        ELSE IF IsArray(sourceObj) THEN FALSE
        ELSE IF key \in {"c", "sc"}
        THEN \/ Truthy(s) /\ ReadThrows(s)
             \/ Truthy(s) /\ Truthy(Get(s, "k")) /\ Truthy(t) /\ ReadThrows(t)
        ELSE IF key = "g"
        THEN \/ Truthy(s) /\ ReadThrows(s)
             \/ Truthy(s) /\ IsArray(Get(s, "k")) /\ Truthy(t) /\ ReadThrows(t)
             \/ ~(Truthy(s) /\ IsArray(Get(s, "k"))) /\ Truthy(s) /\ Truthy(Get(s, "k"))
                /\ ReadThrows(Get(s, "k"))
             \/ ~(Truthy(s) /\ IsArray(Get(s, "k"))) /\ Truthy(s) /\ Truthy(Get(s, "k"))
                /\ IsArray(Get(Get(s, "k"), "k")) /\ Truthy(t) /\ Truthy(Get(t, "k"))
                /\ ReadThrows(Get(t, "k"))
        ELSE FALSE
MergeThrows(sourceObj, targetObj) ==
    /\ MergeGuard(sourceObj, targetObj)
    /\ \E key \in Keys(sourceObj) : MergeKeyThrows(sourceObj, targetObj, key)

\* the record of a call
MergeCall(op, sourceObj, targetObj) ==
    [op |-> op, source |-> sourceObj, target |-> targetObj,
     after |-> deepTraverseAndCopyColors(sourceObj, targetObj),
     writes |-> MergeWrites(sourceObj, targetObj, <<>>),
     thrown |-> MergeThrows(sourceObj, targetObj)]

\* fileHandler.deepTraverseAndCopyColors(sourceObj, targetObj) on the arguments drawn
DeepTraverseAndCopyColors ==
    /\ mergeCall.op = "arguments"
    /\ mergeCall' = MergeCall("deepTraverseAndCopyColors", mergeCall.source, mergeCall.target)
    /\ UNCHANGED <<histVars, hslVars, extVars, originalAnimData, pending, picker, edCall, objects>>

\* ExportManager.export(originalAnimData, modifiedAnimData, format, deepCopyColorsFn),
\* HistoryManager.js lines 95-121, up to the document that is serialized: the merge
\* runs from the modified document into a JSON copy of the original
Export ==
    /\ mergeCall.op = "arguments"
    /\ mergeCall' = MergeCall("export", mergeCall.source, DeepCopy(mergeCall.target))
    /\ UNCHANGED <<histVars, hslVars, extVars, originalAnimData, pending, picker, edCall, objects>>

\* the documents a merge is called with. Edited documents: a colour picked at one
\* site, every site recoloured; documents of other shapes: a shape missing, a shape
\* replaced by a number, a colour node without k, with a k that is no array
DocNoShapes == Document(<<>>)
DocNumberShape == Document(<<Int2Num(7), Shape("st", "sc", StaticColor(Teal))>>)
DocColorWithoutK ==
    Document(<<Shape("fl", "c", Obj("a" :> Int2Num(0))),
               Shape("st", "sc", Obj("a" :> Int2Num(0) @@ "k" :> Int2Num(1))),
               Shape("gf", "g", Obj("p" :> Int2Num(2)))>>)
DocNullColor ==
    Document(<<Shape("fl", "c", Null), Shape("st", "sc", Str("#ff0000")),
               Shape("gf", "g", Obj("p" :> Int2Num(2) @@ "k" :> Null))>>)
DocThreeShapes ==
    Document(<<Shape("fl", "c", StaticColor(Teal)), Shape("st", "sc", StaticColor(Red)),
               Shape("gf", "g", Obj("k" :> Stops(Blue, Red)))>>)
MergeOriginals == {DocSolids, DocAnimated, DocGradient, DocAnimatedGradient, DocFlatGradient}
PickedCopies(doc) == {WriteColor(doc, instance, hex) : instance \in Instances(doc), hex \in PickedColors}
Recoloured(doc) == recursiveAdjustColors(DeepCopy(doc), <<>>, Manager({}, 120, -100, 20))
EditedPairs ==
    UNION {{<<edited, doc>> : edited \in PickedCopies(doc) \cup {Recoloured(doc), doc}} : doc \in MergeOriginals}
OtherShapes == {DocNoShapes, DocNumberShape, DocColorWithoutK, DocNullColor, DocThreeShapes,
                DocSolids, DocGradient, DocFlatGradient}
MergeInputs ==
    EditedPairs \cup (OtherShapes \X OtherShapes)
                \cup {<<Null, DocSolids>>, <<DocSolids, Null>>, <<DocSolids, Str("fl")>>}

InitMerge ==
    /\ HistIdle
    /\ HslIdle
    /\ ExtractIdle
    /\ originalAnimData = Null
    /\ pending = <<>>
    /\ picker = Null
    /\ edCall = NoEdCall
    /\ objects = NoObjects
    /\ \E pair \in MergeInputs : mergeCall = [op |-> "arguments", source |-> pair[1], target |-> pair[2]]

NextMerge == DeepTraverseAndCopyColors \/ Export

SpecMerge == InitMerge /\ [][NextMerge]_vars

----------------------------------------------------------------------------
(* HistoryManager: the claims *)

IsCall(op) == lastCall.op = op
SameSerialization(a, b) == JSONstringify(a) = JSONstringify(b)
StacksUnchanged == historyStack = lastCall.preHistory /\ redoStack = lastCall.preRedo

\* C1: undo() on an undo stack of fewer than 2 entries returns null and changes
\* neither stack; and no saveState, undo or redo call ever leaves the undo stack
\* empty once it holds a state (a saveState always leaves it non-empty), so only
\* clear() empties it.
C1_UndoFloor ==
    /\ (IsCall("undo") /\ Len(lastCall.preHistory) < 2)
            => (lastCall.ret = Null /\ StacksUnchanged)
    /\ IsCall("saveState") => historyStack # <<>>
    /\ (lastCall.op \in {"saveState", "undo", "redo"} /\ lastCall.preHistory # <<>>)
            => historyStack # <<>>
\* an undo() was called on the one-entry stack left by a save
C1_Witness ==
    /\ IsCall("undo")
    /\ Len(lastCall.preHistory) = 1
    /\ Len(historyStack) = 1

\* C2: after saveState(p) with p not serialization-identical to the top of the
\* undo stack (or with the stack empty), the top of the undo stack is the deep
\* copy of p and the redo stack is empty.
SavedNew ==
    /\ IsCall("saveState")
    /\ \/ lastCall.preHistory = <<>>
       \/ ~SameSerialization(lastCall.arg, Last(lastCall.preHistory))
C2_SavePushes ==
    SavedNew =>
        /\ historyStack # <<>>
        /\ Last(historyStack) = DeepCopy(lastCall.arg)
        /\ redoStack = <<>>
\* a new payload, which its deep copy differs from, was saved while the redo stack held entries
C2_Witness ==
    /\ SavedNew
    /\ lastCall.preRedo # <<>>
    /\ lastCall.arg = PayloadU
    /\ Len(historyStack) > 1

\* C3: saveState(p) with p serialization-identical to the top of the undo stack
\* changes neither the undo stack nor the redo stack.
SavedSame ==
    /\ IsCall("saveState")
    /\ lastCall.preHistory # <<>>
    /\ SameSerialization(lastCall.arg, Last(lastCall.preHistory))
C3_SaveIdenticalIsNoOp == SavedSame => StacksUnchanged
\* an identical payload (equal only after serialization) was saved while the redo stack held entries
C3_Witness ==
    /\ SavedSame
    /\ lastCall.arg # Last(lastCall.preHistory)
    /\ redoStack # <<>>

\* C4: undo() on an undo stack of at least 2 entries moves exactly the top entry
\* onto the redo stack, leaves the lower entries as they were, and returns a deep
\* copy of the new top.
C4_UndoMovesTop ==
    (IsCall("undo") /\ Len(lastCall.preHistory) >= 2) =>
        /\ historyStack = Front(lastCall.preHistory)
        /\ redoStack = Append(lastCall.preRedo, Last(lastCall.preHistory))
        /\ lastCall.ret = DeepCopy(Last(historyStack))
\* an undo() moved an entry onto a redo stack that already held one
C4_Witness ==
    /\ IsCall("undo")
    /\ Len(lastCall.preHistory) >= 2
    /\ Len(redoStack) >= 2
    /\ Last(lastCall.preHistory) # Last(historyStack)

\* C5: redo(cur) with an empty redo stack returns null and changes neither stack;
\* otherwise it removes the most recently undone entry from the redo stack, pushes
\* a deep copy of cur onto the undo stack, and returns the removed entry.
C5_Redo ==
    /\ (IsCall("redo") /\ lastCall.preRedo = <<>>)
            => (lastCall.ret = Null /\ StacksUnchanged)
    /\ (IsCall("redo") /\ lastCall.preRedo # <<>>) =>
            /\ redoStack = Front(lastCall.preRedo)
            /\ historyStack = Append(lastCall.preHistory, DeepCopy(lastCall.arg))
            /\ lastCall.ret = Last(lastCall.preRedo)
\* a redo(cur) took the newer of two undone entries, cur being neither that entry nor its own deep copy
C5_Witness ==
    /\ IsCall("redo")
    /\ Len(lastCall.preRedo) >= 2
    /\ lastCall.arg = PayloadU
    /\ lastCall.ret # DeepCopy(lastCall.arg)
    /\ lastCall.ret # lastCall.preRedo[1]

\* C6: the undo stack never holds more than MAX_HISTORY entries, and after n
\* saveState calls in a row (from an empty log), each payload differing from its
\* predecessor, it holds exactly the deep copies of the last min(n, MAX_HISTORY)
\* payloads, in save order.
Min(a, b) == IF a < b THEN a ELSE b
LastPayloads(seq, k) == [i \in 1..k |-> DeepCopy(seq[Len(seq) - k + i])]
C6_Bounded ==
    /\ Len(historyStack) <= MAX_HISTORY
    /\ saveRun.ok =>
            historyStack = LastPayloads(saveRun.seq, Min(Len(saveRun.seq), MAX_HISTORY))
\* more payloads than MAX_HISTORY were saved in a row, so the oldest were discarded
C6_Witness ==
    /\ saveRun.ok
    /\ MAX_HISTORY >= 2
    /\ Len(saveRun.seq) >= MAX_HISTORY + 2
    /\ Len(historyStack) = MAX_HISTORY

----------------------------------------------------------------------------
(* HslAdjustManager: the claims. hslCall is the applyAdjustments call just    *)
(* made, lockedPaths the lock set it ran with, hslOriginalAnimData the         *)
(* baseline it left.                                                           *)

IsApply == hslCall.op = "applyAdjustments"
CallManager(locked) == Manager(locked, hslCall.hue, hslCall.saturation, hslCall.lightness)

\* C7: with no locked paths, the baseline is captured once after clear(), as a deep
\* copy of the document passed to the first call, and every call returns that
\* baseline with that call's shifts alone applied, whatever the earlier shifts and
\* whatever document is passed later
C7_RecomputedFromBaseline ==
    IsApply /\ capture.clean =>
        /\ hslOriginalAnimData = DeepCopy(capture.doc)
        /\ hslCall.ret = recursiveAdjustColors(DeepCopy(capture.doc), <<>>, CallManager({}))

\* a later call, with other shifts than the call before moved the document to, on a
\* document that was edited after the baseline was captured
C7_Witness ==
    /\ IsApply /\ capture.clean
    /\ hslCall.edited # {}
    /\ hslCall.animData # capture.doc
    /\ hslCall.hue # 0
    /\ hslCall.ret # hslCall.animData
    /\ hslCall.ret # capture.doc

\* the three colour channels of the array arr from position i (0-based) on
RgbAt(arr, i) == <<Get(arr, KeyOf(i)), Get(arr, KeyOf(i + 1)), Get(arr, KeyOf(i + 2))>>
IsColor(color) == \A i \in 1..3 : IsNum(color[i])
\* the colour of the site at an extractor path: of a gradient stop (the path ends at
\* the stop's offset), of a keyframe (its s), of a static colour property (its k)
SiteColor(doc, path) ==
    LET v == GetPath(doc, path)
    IN  IF IsNumberType(v) THEN RgbAt(GetPath(doc, Front(path)), parseInt(Last(path)) + 1)
        ELSE IF hasOwnProperty(v, "s") THEN RgbAt(Get(v, "s"), 0)
        ELSE RgbAt(Get(v, "k"), 0)
IsChromatic(color) == IsColor(color) /\ ~(color[1] = color[2] /\ color[2] = color[3])
\* the sites of the document passed to the call
CallSites == SitePaths(hslCall.animData)
\* the locked, not manually edited sites of the call that hold a colour
LockedSites ==
    {p \in (lockedPaths \cap CallSites) \ hslCall.edited : IsColor(SiteColor(hslCall.animData, p))}
\* the sites of the call that no locked path is or lies above, chromatic in the baseline
IsPrefix(P, q) == Len(P) <= Len(q) /\ SubSeq(q, 1, Len(P)) = P
UnlockedChromaticSites ==
    {q \in CallSites : /\ \A P \in lockedPaths : ~IsPrefix(P, q)
                       /\ IsChromatic(SiteColor(hslOriginalAnimData, q))}

\* C8 (first half): a locked, not manually edited extractor path has, in the document
\* returned by a call with a non-zero hue shift, exactly the colour it had in the
\* document passed to the call
C8_LockedSiteKeepsColor ==
    IsApply /\ hslCall.hue # 0 =>
        \A p \in LockedSites : SiteColor(hslCall.ret, p) = SiteColor(hslCall.animData, p)

\* C8: a locked, not manually edited extractor path keeps its pre-shift colour under
\* a call with a non-zero hue shift, while the colour of every unlocked chromatic
\* sibling site changes from its baseline colour
C8_LockedKeepsSiblingChanges ==
    IsApply /\ hslCall.hue # 0 /\ LockedSites # {} =>
        /\ \A p \in LockedSites : SiteColor(hslCall.ret, p) = SiteColor(hslCall.animData, p)
        /\ \A q \in UnlockedChromaticSites :
               SiteColor(hslCall.ret, q) # SiteColor(hslOriginalAnimData, q)

\* a stop of a gradient without a stop count is locked, the hue is shifted, and the
\* unlocked chromatic stop beside it comes back with its baseline colour
C8_Witness ==
    /\ IsApply /\ hslCall.hue # 0 /\ LockedSites # {}
    /\ \E q \in UnlockedChromaticSites :
           SiteColor(hslCall.ret, q) = SiteColor(hslOriginalAnimData, q)

\* the value syncLockedColors is to copy for a path: the 4-element window
\* [offset, r, g, b] of a numeric leaf, the value itself of an object leaf
Leaf(doc, path) ==
    LET v == GetPath(doc, path)
        parent == GetPath(doc, Front(path))
        idx == parseInt(Last(path))
    IN  IF IsNumberType(v) THEN SubSeq(parent.e, idx + 1, idx + 4) ELSE v

\* C9: a locked path whose value in the working document was edited directly has its
\* live value (the whole stop window, or a deep copy of the object) in the baseline
\* after the next applyAdjustments, and the returned document holds the edited
\* colour at that path, unshifted
C9_EditOfLockedSticks ==
    IsApply =>
        \A p \in lockedPaths \cap hslCall.edited :
            /\ Leaf(hslOriginalAnimData, p) = Leaf(DeepCopy(hslCall.animData), p)
            /\ SiteColor(hslCall.ret, p) = SiteColor(hslCall.animData, p)

\* a locked path was edited after the baseline was captured, and the call shifts the
\* colours: the baseline held another colour there, and a sibling is shifted
C9_Witness ==
    /\ IsApply /\ (hslCall.hue # 0 \/ hslCall.lightness # 0)
    /\ \E p \in lockedPaths \cap hslCall.edited :
           /\ SiteColor(capture.doc, p) # SiteColor(hslCall.animData, p)
           /\ SiteColor(hslCall.ret, p) = SiteColor(hslCall.animData, p)
           /\ IsNumberType(GetPath(hslCall.animData, p))
    /\ hslCall.ret # hslCall.animData

\* C10: locking is hierarchical: a call leaves unchanged every colour site whose
\* path is a locked path or has a locked path as a proper prefix, an animated
\* gradient's keyframe path and the ancestor containers (layer, shape) included
C10_Hierarchical ==
    IsApply =>
        \A P \in lockedPaths, q \in CallSites :
            IsPrefix(P, q) /\ q \notin hslCall.edited =>
                SiteColor(hslCall.ret, q) = SiteColor(hslCall.animData, q)

\* the keyframe of an animated gradient is locked and the stop in it is recoloured
C10_Witness ==
    /\ IsApply
    /\ \E P \in lockedPaths, q \in CallSites :
           /\ IsPrefix(P, q) /\ P # q /\ q \notin hslCall.edited
           /\ Last(Front(P)) = "k"
           /\ GetPath(hslCall.animData, Front(Front(Front(P)))) # Undefined
           /\ SiteColor(hslCall.ret, q) # SiteColor(hslCall.animData, q)

\* |a - b| <= 1/255 for two numbers
Within255(a, b) ==
    /\ IsNum(a)
    /\ IsNum(b)
    /\ 255 * Abs(a.num * b.den - b.num * a.den) <= a.den * b.den
CloseColors(c, d) == \A i \in 1..3 : Within255(c[i], d[i])
ZeroShifts == hslCall.hue = 0 /\ hslCall.saturation = 0 /\ hslCall.lightness = 0

\* C11: whatever calls came before, a call with the shifts (0, 0, 0) returns a
\* document whose colours equal the baseline's within 1/255 per channel
C11_ZeroShiftsNeutral ==
    IsApply /\ ZeroShifts =>
        \A q \in SitePaths(hslOriginalAnimData) :
            IsColor(SiteColor(hslOriginalAnimData, q)) =>
                CloseColors(SiteColor(hslCall.ret, q), SiteColor(hslOriginalAnimData, q))

\* the call with (0, 0, 0) is made on a document that an earlier call had shifted,
\* and a colour of the baseline that is no multiple of 1/255 comes back rounded
C11_Witness ==
    /\ IsApply /\ ZeroShifts /\ capture.clean
    /\ hslCall.animData # capture.doc
    /\ \E q \in SitePaths(hslOriginalAnimData) :
           SiteColor(hslCall.ret, q) # SiteColor(hslOriginalAnimData, q)

\* the array with its elements at the positions i, i + 1, i + 2 (0-based), those
\* that exist, blanked
BlankRgb(arr, i) == Arr([j \in 1..Len(arr.e) |-> IF j - 1 \in i..(i + 2) THEN Null ELSE arr.e[j]])
\* the document with the R, G, B components of the site at an extractor path blanked
BlankSite(doc, path) ==
    LET v == GetPath(doc, path)
    IN  IF IsNumberType(v) /\ IsArray(GetPath(doc, Front(path)))
        THEN PutPath(doc, Front(path), BlankRgb(GetPath(doc, Front(path)), parseInt(Last(path)) + 1))
        ELSE IF IsArray(Get(v, "s")) THEN PutPath(doc, Append(path, "s"), BlankRgb(Get(v, "s"), 0))
        ELSE IF IsArray(Get(v, "k")) THEN PutPath(doc, Append(path, "k"), BlankRgb(Get(v, "k"), 0))
        ELSE doc
RECURSIVE BlankSites(_, _)
BlankSites(doc, paths) ==
    IF paths = {} THEN doc
    ELSE LET path == CHOOSE q \in paths : TRUE
         IN  BlankSites(BlankSite(doc, path), paths \ {path})

\* C12: the returned document differs from the baseline in nothing but the R, G, B
\* components of the colour sites: alpha components, stop offsets, the array
\* elements after the colour stops, every other field and the shape of the tree are
\* the baseline's
C12_OnlyRgbChanges ==
    IsApply =>
        BlankSites(hslCall.ret, SitePaths(hslOriginalAnimData))
            = BlankSites(DeepCopy(hslOriginalAnimData), SitePaths(hslOriginalAnimData))

\* the sample of a keyframe holds one number in the baseline and three elements in
\* the document returned
C12_Witness ==
    /\ IsApply
    /\ \E q \in SitePaths(hslOriginalAnimData) :
           /\ Length(Get(GetPath(hslOriginalAnimData, q), "s")) = 1
           /\ Length(Get(GetPath(hslCall.ret, q), "s")) = 3

\* the objects of the applyAdjustments call just made
IsHeapCall == IsApply /\ heap.call.op = "applyAdjustments"
Returned == heap.call.ret # 0

\* C13: applyAdjustments writes nothing into the document it is passed; the
\* document it returns is a new object, neither the one passed nor the baseline,
\* and the caller's reference holds the document passed or the one returned
C13_FreshCopy ==
    IsApply =>
        /\ IsHeapCall
        /\ heap.call.post[heap.call.passed] = heap.call.pre[heap.call.passed]
        /\ hslOriginalAnimData = heap.call.post[heap.call.original]
        /\ heap.call.original # heap.call.passed
        /\ IF Returned
           THEN /\ heap.call.ret \notin {heap.call.passed, heap.call.original}
                /\ heap.call.ret > Len(heap.call.pre)
                /\ animData = heap.call.post[heap.call.ret]
                /\ heap.original # heap.animData
           ELSE animData = heap.call.pre[heap.call.passed]
\* a baseline was held, syncLockedColors wrote into it and the walk recoloured
\* the copy returned
C13_Witness ==
    /\ IsHeapCall
    /\ Returned
    /\ Len(heap.call.pre) = 2
    /\ heap.call.post[2] # heap.call.pre[2]
    /\ heap.call.post[heap.call.ret] # heap.call.post[2]
    /\ heap.call.post[heap.call.ret] # heap.call.pre[1]

----------------------------------------------------------------------------
(* ColorExtractor and the picker *)

\* the picker wrote a hex through an instance and extractColors ran again
IsPick == extractCall.op = "extractColors" /\ extractCall.written # <<>>
WrittenInstance == extractCall.written[1]
WrittenHex == extractCall.written[2]

\* C18: after a hex is written through an extracted instance (the picker's onChange)
\* and extractColors runs again on the document, the instances returned hold one at
\* the path of the instance written through, and its hex is the hex written
C18_WriteThrough ==
    IsPick =>
        /\ ~extractCall.thrown
        /\ \E k \in 1..Len(extractCall.ret) :
               /\ extractCall.ret[k].path = WrittenInstance.path
               /\ extractCall.ret[k].hex = WrittenHex
        /\ \A k \in 1..Len(extractCall.ret) :
               extractCall.ret[k].path = WrittenInstance.path => extractCall.ret[k].hex = WrittenHex
\* a gradient stop whose hex was another is written through
C18_Witness ==
    /\ IsPick
    /\ WrittenInstance.type = "gradient"
    /\ WrittenInstance.hex # WrittenHex
    /\ \E k \in 1..Len(extractCall.ret) :
           extractCall.ret[k].path = WrittenInstance.path /\ extractCall.ret[k].hex = WrittenHex

\* extractColors was just called on obj
IsExtract(obj) == extractCall.op = "extractColors" /\ extractCall.obj = obj
Field(seq, f) == [i \in 1..Len(seq) |-> seq[i][f]]

\* C17: on a document of one static fill, one animated stroke with three keyframes
\* and one static gradient of three stops (the stop count p if present, else a
\* quarter of the length), extractColors returns exactly seven instances: the fill,
\* a stroke for each keyframe, and the gradient stops at indices 0, 4, 8; the
\* groups are at most seven
C17_SevenInstances ==
    IsExtract(DocSeven) \/ IsExtract(DocSevenNoCount) =>
        /\ ~extractCall.thrown
        /\ Len(extractCall.ret) = 7
        /\ Field(extractCall.ret, "shapeType")
              = <<"fill", "stroke", "stroke", "stroke", "gradient fill", "gradient fill", "gradient fill">>
        /\ Field(extractCall.ret, "type")
              = <<"solid", "stroke", "stroke", "stroke", "gradient", "gradient", "gradient">>
        /\ Field(extractCall.ret, "index")
              = <<Null, Null, Null, Null, Int2Num(0), Int2Num(4), Int2Num(8)>>
        /\ Cardinality({extractCall.ret[i].path : i \in 1..7}) = 7
        /\ Cardinality(DOMAIN groupedColors) <= 7
\* the gradient carries a stop count and more than three stops' worth of numbers,
\* and an earlier extraction had left other groups
C17_Witness ==
    /\ IsExtract(DocSeven)
    /\ extractCall.pre # NoGroups
    /\ Len(extractCall.ret) = 7
    /\ Cardinality(DOMAIN groupedColors) = 4

\* C19: extractColors never throws, whatever tree of objects, arrays, scalars and
\* nulls it is given
C19_NeverThrows == extractCall.op = "extractColors" => ~extractCall.thrown
\* an animated colour whose keyframe list holds a null was extracted
C19_Witness == IsExtract(DocNullKeyframe) /\ Len(extractCall.kept) = 2

\* C20: extractColors of an input that is no object returns no instance and leaves
\* no group, whatever groups an earlier extraction had left
C20_NonObjectEmpty ==
    extractCall.op = "extractColors" /\ extractCall.obj \in NonObjects =>
        extractCall.ret = <<>> /\ groupedColors = NoGroups
\* a non-object is extracted after a document that had groups
C20_Witness ==
    /\ extractCall.op = "extractColors" /\ extractCall.obj \in NonObjects
    /\ extractCall.pre # NoGroups
    /\ extractCall.ret = <<>>

----------------------------------------------------------------------------
(* The HSL state over the life of the editor *)

ShiftsZero == hueShift = 0 /\ saturationShift = 0 /\ lightnessShift = 0
IsReset == hslCall.op = "reset"
IsLoad == hslCall.op = "handleFile"
\* the applyAdjustments call just made was the first since clear()
FirstSinceClear == IsApply /\ hslCall.before = Null

\* C14: reset() leaves the three shifts at zero and the baseline as it was, and
\* returns a copy of the baseline, or null when none is captured; clear() leaves
\* no baseline and the shifts at zero, and the applyAdjustments call that follows
\* captures the document it is passed as the new baseline
C14_ResetAndClear ==
    /\ IsReset =>
          /\ ShiftsZero
          /\ hslOriginalAnimData = hslCall.before
          /\ hslCall.ret = hslCall.before
          /\ hslCall.before # Null => animData = hslCall.before
    /\ IsLoad => ShiftsZero /\ hslOriginalAnimData = Null
    /\ FirstSinceClear /\ hslCall.ret # TypeError =>
          /\ hslOriginalAnimData # Null
          /\ SameSerialization(hslOriginalAnimData, hslCall.animData)
\* reset() was called with shifts set and returned the baseline, which the working
\* document (the one saveState had just saved) had left
C14_Witness ==
    /\ IsReset
    /\ hslCall.hue # 0
    /\ hslCall.ret # Null
    /\ Get(Last(historyStack), "animData") # hslCall.ret
\* a baseline was dropped by clear() and another one was captured by the next call
ClearedAndCapturedAgain ==
    /\ FirstSinceClear
    /\ capture.dropped # Null
    /\ hslOriginalAnimData # Null
    /\ hslOriginalAnimData # capture.dropped

\* C15: when handleFile has completed, the three shifts are 0, no baseline is
\* held and no path is locked, whatever was locked or adjusted before
C15_LoadClearsHslState ==
    IsLoad => ShiftsZero /\ hslOriginalAnimData = Null /\ lockedPaths = {}
\* a file was loaded while a path was locked and a shift was set
C15_Witness == IsLoad /\ hslCall.locked # {} /\ hslCall.hue # 0 /\ hslCall.before # Null

\* a locked path that does not resolve in the document passed or in the baseline
Resolves(doc, path) == WalkOk(doc, doc, Front(path)) /\ Get(GetPath(doc, Front(path)), Last(path)) # Undefined
Unresolved ==
    {q \in lockedPaths : ~Resolves(hslCall.animData, q) \/ ~Resolves(Captured(hslCall.before, hslCall.animData), q)}

\* when no locked path resolves, the baseline is left as it was
UnresolvedSkipped ==
    IsApply /\ Unresolved = lockedPaths => hslOriginalAnimData = Captured(hslCall.before, hslCall.animData)

\* C16: applyAdjustments never throws in syncLockedColors, whatever path is locked
\* and whatever the documents are, and a locked path that does not resolve leaves
\* the baseline as it was
C16_SyncNeverThrows == (IsApply => hslCall.ret # TypeError) /\ UnresolvedSkipped
\* applyAdjustments ran with a locked path that does not resolve
C16_Witness == IsApply /\ Unresolved # {}

----------------------------------------------------------------------------
(* The groups of the locator *)

\* extractColors was just called on an object and returned
ExtractedObject ==
    /\ extractCall.op = "extractColors"
    /\ Truthy(extractCall.obj) /\ IsObjectType(extractCall.obj)
    /\ ~extractCall.thrown
RECURSIVE SumCounts(_, _)
SumCounts(grouped, keys) ==
    IF keys = {} THEN 0
    ELSE LET k == CHOOSE x \in keys : TRUE
         IN  grouped[k].count + SumCounts(grouped, keys \ {k})
InGroup(instances, k) == SelectSeq(instances, LAMBDA x : groupKey(x.hex) = k)

\* C21: after extractColors on an object, every returned instance is in the group
\* of its hex and in no other, each group lists its instances once, in the order
\* returned, its count is their number, the counts add up to the number of
\* instances returned, and its hex and shapeType are those of its first instance
C21_GroupsPartition ==
    ExtractedObject =>
        /\ \A i \in 1..Len(extractCall.ret) : groupKey(extractCall.ret[i].hex) \in DOMAIN groupedColors
        /\ \A k \in DOMAIN groupedColors :
               /\ groupedColors[k].instances = InGroup(extractCall.ret, k)
               /\ groupedColors[k].count = Len(groupedColors[k].instances)
               /\ groupedColors[k].count >= 1
               /\ groupedColors[k].hex = groupedColors[k].instances[1].hex
               /\ groupedColors[k].shapeType = groupedColors[k].instances[1].shapeType
        /\ SumCounts(groupedColors, DOMAIN groupedColors) = Len(extractCall.ret)
\* seven instances fell into four groups, one of them holding instances of
\* different categories, after an extraction that had left other groups
C21_Witness ==
    /\ ExtractedObject
    /\ extractCall.pre # NoGroups
    /\ Len(extractCall.ret) = 7
    /\ Cardinality(DOMAIN groupedColors) = 4
    /\ \E k \in DOMAIN groupedColors :
           /\ groupedColors[k].count = 2
           /\ groupedColors[k].instances[2].shapeType # groupedColors[k].shapeType

----------------------------------------------------------------------------
(* deepTraverseAndCopyColors: the claims *)

Merged == mergeCall.op \in {"deepTraverseAndCopyColors", "export"}

\* the value with its colour fields blanked: the k of a c or an sc, the k of a g
\* when it is an array, else the k.k of a g when it is an array
RECURSIVE BlankColors(_)
BlankColorField(key, v) ==
    IF key \in {"c", "sc"} /\ IsArray(Get(v, "k")) THEN Put(v, "k", Null)
    ELSE IF key = "g" /\ IsArray(Get(v, "k")) THEN Put(v, "k", Null)
    ELSE IF key = "g" /\ IsArray(Get(Get(v, "k"), "k")) THEN Put(v, "k", Put(Get(v, "k"), "k", Null))
    ELSE BlankColors(v)
BlankColors(v) ==
    CASE v.t = "obj" -> Obj([key \in DOMAIN v.f |-> BlankColorField(key, v.f[key])])
      [] v.t = "arr" -> Arr([j \in 1..Len(v.e) |-> BlankColors(v.e[j])])
      [] OTHER -> v
DiffersOnlyInColors(edited, original) ==
    /\ MergeGuard(edited, original)
    /\ BlankColors(edited) = BlankColors(original)

\* C22: when the source differs from the target in nothing but colour fields, the
\* merge leaves the target deep-equal to the source, in a direct call and in an
\* export, where the target is a JSON copy of the original
C22_MergeFidelity ==
    (Merged /\ DiffersOnlyInColors(mergeCall.source, mergeCall.target))
        => mergeCall.after = mergeCall.source
EndsWith(path, suffix) ==
    Len(path) >= Len(suffix) /\ SubSeq(path, Len(path) - Len(suffix) + 1, Len(path)) = suffix
C22_Witness ==
    /\ mergeCall.op = "export"
    /\ DiffersOnlyInColors(mergeCall.source, mergeCall.target)
    /\ mergeCall.source # mergeCall.target
    /\ \E w \in mergeCall.writes : EndsWith(w, <<"g", "k", "k">>)
    /\ mergeCall.after = mergeCall.source

\* the document with the values at the paths blanked
RECURSIVE BlankAt(_, _)
BlankAt(doc, paths) ==
    IF paths = {} THEN doc
    ELSE LET path == CHOOSE q \in paths : TRUE
         IN  BlankAt(PutPath(doc, path, Null), paths \ {path})
IsColorK(path) ==
    \/ \E key \in {"c", "sc", "g"} : EndsWith(path, <<key, "k">>)
    \/ EndsWith(path, <<"g", "k", "k">>)

\* C23: a merge never throws; every property it assigns is the k of a c, an sc or a
\* g (or the k of that k) that both trees hold; and apart from the values at those
\* properties the target is as it was, keys and indices included
C23_MergeFrame ==
    Merged =>
        /\ ~mergeCall.thrown
        /\ \A w \in mergeCall.writes :
            /\ IsColorK(w)
            /\ GetPath(mergeCall.target, w) # Undefined
            /\ GetPath(mergeCall.source, w) # Undefined
        /\ BlankAt(mergeCall.after, mergeCall.writes) = BlankAt(mergeCall.target, mergeCall.writes)
C23_Witness ==
    /\ mergeCall.op = "deepTraverseAndCopyColors"
    /\ mergeCall.source = DocThreeShapes
    /\ mergeCall.target = DocNumberShape
    /\ mergeCall.writes # {}
    /\ mergeCall.after # mergeCall.target
    /\ ~mergeCall.thrown

----------------------------------------------------------------------------
(* The editing session: the claims *)

PositionChanged == edCall.op = "positionChange"
\* the stop array the instance c refers to in a document
StopsOf(doc, c) == Get(GetPath(doc, c.ref), StopArrayKey(GetPath(doc, c.ref)))
ChunkAt(arr, i) == SubSeq(arr.e, 4 * i + 1, 4 * i + 4)
ChunkCount(arr, n, chunk) == Cardinality({i \in 0..(n - 1) : ChunkAt(arr, i) = chunk})
\* the gradient instances an extraction returned for the stop array of c
StopsExtracted(c) == SelectSeq(extractCall.ret, LAMBDA x : x.type = "gradient" /\ x.ref = c.ref)

\* C24: after a stop offset edit with a numeric text the first stopCount chunks of
\* the stop array are in ascending offset order and are the chunks of the array
\* before the edit with the offset of the edited stop replaced, the elements after
\* them and the length are as before, and the extraction the handler runs reports
\* the stops at the indices 0, 4, 8, ... with the offsets and colours found there;
\* a text that is no number leaves the document and both stacks as they were
C24_StopsSortedAfterEdit ==
    PositionChanged =>
        LET c == edCall.arg.c
            newOffset == parseFloat(edCall.arg.text)
            old == StopsOf(edCall.animData, c)
            edited == SetIdx(old, c.index.num, newOffset)
            arr == StopsOf(animData, c)
            n == Turns(c.stopCount)
            stops == StopsExtracted(c)
        IN  IF newOffset = NaN
            THEN /\ animData = edCall.animData
                 /\ historyStack = edCall.historyStack
                 /\ redoStack = edCall.redoStack
            ELSE /\ Len(arr.e) = Len(old.e)
                 /\ \A i \in 0..(n - 2) : ~RLt(arr.e[4 * (i + 1) + 1], arr.e[4 * i + 1])
                 /\ \A i \in 0..(n - 1) :
                        ChunkCount(arr, n, ChunkAt(edited, i)) = ChunkCount(edited, n, ChunkAt(edited, i))
                 /\ \A q \in (4 * n + 1)..Len(old.e) : arr.e[q] = old.e[q]
                 /\ ~extractCall.thrown
                 /\ Len(stops) = n
                 /\ \A j \in 1..n :
                        /\ stops[j].index = Int2Num(4 * (j - 1))
                        /\ stops[j].offset = arr.e[4 * (j - 1) + 1]
                        /\ stops[j].hex = rgbToHex(Times255(arr.e[4 * (j - 1) + 2]),
                                                   Times255(arr.e[4 * (j - 1) + 3]),
                                                   Times255(arr.e[4 * (j - 1) + 4]))
                 /\ \A j \in 1..(n - 1) : ~RLt(stops[j + 1].offset, stops[j].offset)
C24_Witness ==
    /\ PositionChanged
    /\ edCall.arg.text = "1.2"
    /\ Turns(edCall.arg.c.stopCount) = 3
    /\ StopsOf(animData, edCall.arg.c)
            # SetIdx(StopsOf(edCall.animData, edCall.arg.c), edCall.arg.c.index.num, Rat(6, 5))
    /\ Len(StopsOf(animData, edCall.arg.c).e) > 12

PickerChanged == edCall.op = "pickerChange"
\* C25: a colour change through the picker of an instance leaves the document as it
\* was but for the R, G, B components at the site of the instance: the length of
\* the array and its fourth component are kept
C25_EditPreservesShape ==
    PickerChanged => BlankSite(animData, edCall.arg.path) = BlankSite(edCall.animData, edCall.arg.path)
\* the colour of the half transparent stroke was changed
C25_Witness ==
    /\ PickerChanged
    /\ edCall.arg.type = "stroke"
    /\ Get(Get(GetPath(edCall.animData, edCall.arg.ref), "k"), "3") = Rat(1, 2)
    /\ Get(Get(GetPath(animData, edCall.arg.ref), "k"), "3") = Int2Num(1)
\* the part that holds: a change through the picker of a gradient stop
GradientEditPreservesShape ==
    PickerChanged /\ edCall.arg.type = "gradient"
        => BlankSite(animData, edCall.arg.path) = BlankSite(edCall.animData, edCall.arg.path)

\* C28: when undoChange() follows a single colour change made through a picker, the
\* working document is the one the picker was opened on
C28_UndoRevertsPickerEdit ==
    (edCall.op = "undoChange" /\ edCall.prev = "pickerChange" /\ edCall.picker.changes = 1)
        => animData = edCall.picker.opened
\* the undo after the first picker edit on a loaded file did nothing
C28_Witness ==
    /\ edCall.op = "undoChange" /\ edCall.prev = "pickerChange" /\ edCall.picker.changes = 1
    /\ edCall.arg = Null
    /\ animData = edCall.animData
    /\ animData # edCall.picker.opened
\* the other way it fails: the undo went back beyond the state the picker was opened on
UndoJumpedBeyondOpen ==
    /\ edCall.op = "undoChange" /\ edCall.prev = "pickerChange" /\ edCall.picker.changes = 1
    /\ edCall.arg # Null
    /\ animData # edCall.picker.opened
    /\ animData # edCall.animData

\* C29: once a handler has changed the document after an undo, nothing can be
\* redone, and a redoChange() that follows leaves the document as the edit left it
C29_ForwardEditClearsRedo ==
    /\ edCall.forward => redoStack = <<>>
    /\ (edCall.op = "redoChange" /\ edCall.afterForward) => animData = edCall.animData
\* a colour was changed through a picker after an undo, and the undone state can
\* still be redone
C29_Witness ==
    /\ edCall.op = "pickerChange"
    /\ edCall.forward
    /\ redoStack # <<>>
\* the redo that follows replaces the edited document
RedoReplacedEdit ==
    /\ edCall.op = "redoChange" /\ edCall.afterForward
    /\ animData # edCall.animData
\* the part that holds: a stop position edit after an undo clears the redo stack
PositionEditClearsRedo ==
    (edCall.op = "positionChange" /\ edCall.forward) => redoStack = <<>>

\* C30: when handleFile has completed, the undo stack holds one entry, the loaded
\* document with the shifts (0, 0, 0), and the redo stack is empty
C30_LoadLeavesOneCleanEntry ==
    IsLoad =>
        /\ Len(historyStack) = 1
        /\ historyStack[1] = EditorStateOf(animData, <<0, 0, 0>>)
        /\ redoStack = <<>>
\* a file was loaded while a shift was set
C30_Witness ==
    /\ IsLoad
    /\ hslCall.hue # 0
    /\ Len(historyStack) = 1
    /\ Get(historyStack[1], "animData") = animData
    /\ redoStack = <<>>
\* the parts that hold
LoadLeavesOneEntry ==
    IsLoad => Len(historyStack) = 1 /\ Get(historyStack[1], "animData") = animData /\ redoStack = <<>>

----------------------------------------------------------------------------
(* Loading files: the claims *)

\* C26: when the load of a file fails, the working document, the original
\* document, both history stacks, the shifts, the baseline and the locks are as
\* handleFile found them
C26_FailedLoadLeavesState ==
    edCall.op = "loadFailed" =>
        /\ animData = edCall.animData
        /\ originalAnimData = edCall.originalAnimData
        /\ historyStack = edCall.historyStack
        /\ redoStack = edCall.redoStack
        /\ <<hueShift, saturationShift, lightnessShift>> = edCall.hsl
        /\ hslOriginalAnimData = edCall.baseline
        /\ lockedPaths = edCall.locked
\* the load of a .tgs file that is no gzip data failed on a document with a shift
C26_Witness ==
    /\ edCall.op = "loadFailed"
    /\ pending[edCall.arg].file = FileNotGzip
    /\ animData # Null
    /\ hueShift # 0
    /\ hslOriginalAnimData # Null
    /\ Len(historyStack) = 2

AllSettled == \A i \in 1..Len(pending) : pending[i].settled
\* two loads overlapped, both have settled, and the file requested last parsed
OverlappedLoadsDone ==
    /\ edCall.op \in {"loaded", "loadFailed"}
    /\ Len(pending) = 2
    /\ pending[2].overlapped
    /\ AllSettled
    /\ ~loadFile(pending[2].file).rejected
\* C27: when two overlapping loads have both settled, the original document, the
\* working document and the first entry of the undo stack are those of the file
\* requested last
C27_LatestLoadWins ==
    OverlappedLoadsDone =>
        /\ originalAnimData = loadFile(pending[2].file).value
        /\ animData = DeepCopy(originalAnimData)
        /\ Get(historyStack[1], "animData") = animData
\* the file requested first settled last and is the one loaded
C27_Witness ==
    /\ OverlappedLoadsDone
    /\ edCall.op = "loaded"
    /\ edCall.arg = 1
    /\ pending[1].file = FileSolids
    /\ pending[2].file = FileGradient
    /\ originalAnimData = DocSolids
\* the part that holds: loads that settle in the order of their requests
InOrderLatestWins ==
    (OverlappedLoadsDone /\ edCall.arg = 2) =>
        /\ originalAnimData = loadFile(pending[2].file).value
        /\ animData = DeepCopy(originalAnimData)
        /\ Get(historyStack[1], "animData") = animData

----------------------------------------------------------------------------
(* The log over long sequences: the claims *)

\* a call of saveState, undo or redo found entries on the undo stack
LogCallOnEntries ==
    /\ lastCall.op \in {"saveState", "undo", "redo"}
    /\ Len(lastCall.preHistory) > 0
\* C31: after any saveState, undo or redo on a non-empty undo stack, the bottom
\* entry of the undo stack is the one it was before, so the first state saved
\* after a clear stays at the bottom whatever the length of the sequence
C31_InitialStateStaysAtBottom ==
    LogCallOnEntries =>
        /\ Len(historyStack) > 0
        /\ historyStack[1] = lastCall.preHistory[1]
\* a saveState on a full undo stack pushed a new state
C31_Witness ==
    /\ lastCall.op = "saveState"
    /\ Len(lastCall.preHistory) = MAX_HISTORY
    /\ MAX_HISTORY > 1
    /\ Len(historyStack) = MAX_HISTORY
    /\ Last(historyStack) = DeepCopy(lastCall.arg)
    /\ Last(historyStack) # Last(lastCall.preHistory)
\* the parts that hold: undo and redo keep the bottom entry, and so does a
\* saveState on an undo stack of fewer than MAX_HISTORY entries
BottomKeptBelowCapacity ==
    (LogCallOnEntries /\ (lastCall.op = "saveState" => Len(lastCall.preHistory) < MAX_HISTORY)) =>
        /\ Len(historyStack) > 0
        /\ historyStack[1] = lastCall.preHistory[1]

----------------------------------------------------------------------------
(* The recolouring against the locator: the claims *)

\* the colour the recolouring computes from a colour: lines 254-269 and 326-341
ShiftedColor(color, m) == ShiftedRgb(Times255(color[1]), Times255(color[2]), Times255(color[3]), m)
\* the sites the locator reports in the baseline that hold a colour and that no
\* locked path is or lies above
UnlockedColorSites ==
    {q \in SitePaths(hslOriginalAnimData) :
        /\ \A P \in lockedPaths : ~IsPrefix(P, q)
        /\ IsColor(SiteColor(hslOriginalAnimData, q))}
\* the gradient property a stop path lies in (the stop path is g.k.i, g.k.k.i or
\* g.k.k.n.s.i), and whether the site is a stop of a gradient without the field p
GradientOf(q) == SubSeq(q, 1, CHOOSE n \in 1..Len(q) : q[n] = "g" /\ \A j \in (n + 1)..Len(q) : q[j] # "g")
IsUncountedStop(q) ==
    /\ IsNumberType(GetPath(hslOriginalAnimData, q))
    /\ ~Truthy(Get(GetPath(hslOriginalAnimData, GradientOf(q)), "p"))
\* the site comes back with the colour the shifts of the call make of its baseline colour
SiteShifted(q) ==
    SiteColor(hslCall.ret, q) = ShiftedColor(SiteColor(hslOriginalAnimData, q), CallManager(lockedPaths))

\* C32: in the document a call returns, every unlocked colour site the locator
\* reports, the stops of a gradient without the field p included, holds the
\* shifted value of its baseline colour, and nothing but the R, G, B components
\* of the reported sites differs from the baseline
C32_AdjustsExtractedSites ==
    IsApply /\ hslCall.ret # TypeError =>
        /\ \A q \in UnlockedColorSites : SiteShifted(q)
        /\ BlankSites(hslCall.ret, SitePaths(hslOriginalAnimData))
               = BlankSites(DeepCopy(hslOriginalAnimData), SitePaths(hslOriginalAnimData))
\* with no lock set, a call with a hue shift returned a chromatic stop of a
\* gradient without the field p
C32_Witness ==
    /\ IsApply /\ hslCall.ret # TypeError
    /\ hslCall.hue # 0
    /\ lockedPaths = {}
    /\ \E q \in UnlockedColorSites :
           /\ IsUncountedStop(q)
           /\ IsChromatic(SiteColor(hslOriginalAnimData, q))
           /\ SiteColor(hslCall.ret, q) = SiteColor(hslOriginalAnimData, q)
\* the part that holds: the unlocked sites other than the stops of a gradient
\* without the field p come back shifted
CountedSitesShifted ==
    IsApply /\ hslCall.ret # TypeError =>
        \A q \in UnlockedColorSites : ~IsUncountedStop(q) => SiteShifted(q)
\* the stops of a gradient without the field p come back as they are in the baseline
UncountedStopsKept ==
    IsApply /\ hslCall.ret # TypeError =>
        \A q \in UnlockedColorSites :
            IsUncountedStop(q) => SiteColor(hslCall.ret, q) = SiteColor(hslOriginalAnimData, q)

----------------------------------------------------------------------------
(* Undo and redo in the editing session: the claims *)

\* undoChange has just restored a state, and redoChange runs next
RedoRightAfterUndo ==
    /\ edCall.op = "undoChange"
    /\ edCall.arg # Null
    /\ edCall'.op = "redoChange"
\* C33: a redoChange right after an undoChange that restored a state leaves the
\* working document and the shifts as the undoChange found them
C33_UndoRedoIdentity ==
    [][RedoRightAfterUndo =>
          /\ animData' = edCall.animData
          /\ <<hueShift', saturationShift', lightnessShift'>> = edCall.hsl]_vars
\* a redoChange has restored a state right after an undoChange that had restored one
C33_Witness ==
    /\ edCall.op = "redoChange"
    /\ edCall.prev = "undoChange"
    /\ edCall.afterRestore
    /\ edCall.arg # Null
    /\ animData = Get(edCall.arg, "animData")
    /\ animData # edCall.animData
\* the part that holds: when the undoChange found the saved state on top of the
\* undo stack as its working state, the redoChange brings that state back
UndoRedoOfSavedState ==
    [][(RedoRightAfterUndo /\ Last(edCall.historyStack) = EditorStateOf(edCall.animData, edCall.hsl)) =>
          /\ animData' = edCall.animData
          /\ <<hueShift', saturationShift', lightnessShift'>> = edCall.hsl]_vars

----------------------------------------------------------------------------
(* The HSL engine after undo and redo: a session on a loaded file in which the  *)
(* sliders are also moved back to zero                                          *)

\* the editor when handleFile has loaded the first file (part_001 lines 247-274)
FileLoaded(doc) ==
    /\ MAX_HISTORY = EditorMaxHistory
    /\ originalAnimData = doc
    /\ animData = DeepCopy(doc)
    /\ historyStack = <<DeepCopy(EditorStateOf(animData, <<0, 0, 0>>))>>
    /\ redoStack = <<>>
    /\ lastCall = [op |-> "saveState", arg |-> EditorStateOf(animData, <<0, 0, 0>>), ret |-> Undefined,
                   preHistory |-> <<>>, preRedo |-> <<>>]
    /\ saveRun = [ok |-> TRUE, seq |-> <<EditorStateOf(animData, <<0, 0, 0>>)>>]
    /\ hslOriginalAnimData = Null
    /\ hueShift = 0
    /\ saturationShift = 0
    /\ lightnessShift = 0
    /\ lockedPaths = {}
    /\ hslCall = [op |-> "handleFile", hue |-> 0, saturation |-> 0, lightness |-> 0,
                  locked |-> {}, before |-> Null, ret |-> Undefined]
    /\ capture = [doc |-> Null, clean |-> TRUE, dropped |-> Null]
    /\ editedPaths = {}
    /\ edits = 0
    /\ lockOps = 0
    /\ ops = 0
    /\ heap = Heap(0, NoAlloc)
    /\ extractCall = [op |-> "extractColors", obj |-> animData, pre |-> NoGroups,
                      kept |-> extractColors(animData), thrown |-> FALSE,
                      ret |-> extractColors(animData), written |-> <<>>]
    /\ groupedColors = ExtractorGroups(NoGroups, animData, extractCall.kept)
    /\ pending = <<>>
    /\ picker = Null
    /\ edCall = NoEdCall
    /\ mergeCall = NoMergeCall
    /\ objects = NoObjects
InitRestore == FileLoaded(DocSession)

\* the shifts the sliders are moved to in this session
RestoreShifts == {<<0, 0, 0>>, <<120, 0, 0>>}
NextRestore ==
    \/ PickerOpen
    \/ \E c \in Instances(animData), hex \in PickedColors : PickerChange(c, hex)
    \/ PositionFocus
    \/ \E sh \in RestoreShifts : SliderInput(sh[1], sh[2], sh[3])
    \/ SliderRelease
    \/ UndoChange
    \/ RedoChange
SpecRestore == InitRestore /\ [][NextRestore]_vars

\* the sliders were set to the shifts of the state an undoChange or a redoChange
\* had just restored, with no path locked, and applyAdjustments returned
AppliedToRestored ==
    /\ edCall.op = "sliderInput"
    /\ edCall.afterRestore
    /\ edCall.arg = edCall.hsl
    /\ lockedPaths = {}
    /\ hslCall.ret # TypeError
\* the colour sites of the restored document hold, in the working document, colours
\* within 1/255 per channel of those restored
ColorsAsRestored ==
    \A q \in SitePaths(edCall.animData) :
        IsColor(SiteColor(edCall.animData, q)) =>
            CloseColors(SiteColor(animData, q), SiteColor(edCall.animData, q))
\* C34: when an undoChange or a redoChange has restored a state, applyAdjustments
\* with the shifts of that state and no locked paths returns a document whose
\* colours are, within rounding, those of the restored document
C34_RestoreKeepsEngineConsistent == AppliedToRestored => ColorsAsRestored
\* an undoChange restored a document whose colours differ from those of the
\* baseline the engine holds, and the sliders were set to the restored shifts
C34_Witness ==
    /\ AppliedToRestored
    /\ edCall.prev = "undoChange"
    /\ hslCall.before # Null
    /\ \E q \in SitePaths(edCall.animData) :
           /\ IsColor(SiteColor(edCall.animData, q))
           /\ ~CloseColors(SiteColor(hslCall.before, q), SiteColor(edCall.animData, q))
           /\ SiteColor(animData, q) = SiteColor(hslCall.before, q)
\* the part that holds: a restore made before the engine has captured a baseline
RestoredBeforeCapture ==
    (AppliedToRestored /\ hslCall.before = Null) => ColorsAsRestored

----------------------------------------------------------------------------
(* Locks in the editing session: lock buttons, sliders and gradient stop        *)
(* positions on a loaded file                                                   *)

\* clicks on lock buttons in one session
MaxToggles == 2
\* a lock button is clicked in the session: togglePathLock, then the onLockToggle
\* callback (part_001 lines 75-82), whose applyCurrentFilter renders the list again
LockToggle(path) ==
    /\ SessionStep
    /\ lockOps < MaxToggles
    /\ Truthy(animData)
    /\ LockToggled(path)
    /\ picker' = Null
    /\ edCall' = EdCall("lockToggle", path)
    /\ UNCHANGED <<originalAnimData, pending, mergeCall, objects>>

\* the text typed into a position input: an offset beyond that of the last stop
LockTexts == {"1.2"}
NextLocks ==
    \/ \E sh \in SessionShifts : SliderInput(sh[1], sh[2], sh[3])
    \/ \E path \in SitePaths(animData) : LockToggle(path)
    \/ \E c \in GradientStops(animData), text \in LockTexts : PositionChange(c, text)
SpecLocks == InitRestore /\ [][NextLocks]_vars

\* the lock button of a path was clicked twice in a row, locking and unlocking it,
\* with shifts set: edCall is the first click, edCall' the second
ToggledOnThenOff ==
    /\ edCall.op = "lockToggle"
    /\ edCall.arg \notin edCall.locked
    /\ edCall'.op = "lockToggle"
    /\ edCall'.arg = edCall.arg
    /\ edCall'.hsl = edCall.hsl
    /\ edCall.hsl # <<0, 0, 0>>
\* C35: when a path is locked and unlocked again, each click followed by the
\* re-application of the unchanged non-zero shifts, every colour site of the
\* working document holds the colour it held before the first click
C35_LockUnlockRestoresColors ==
    [][ToggledOnThenOff =>
          \A q \in SitePaths(edCall.animData) :
              SiteColor(animData', q) = SiteColor(edCall.animData, q)]_vars
\* a path was locked and unlocked again while the hue was shifted
C35_Witness ==
    /\ edCall.op = "lockToggle"
    /\ edCall.prev = "lockToggle"
    /\ edCall.locked = {edCall.arg}
    /\ lockOps = 2
    /\ lockedPaths = {}
    /\ edCall.hsl = <<120, 0, 0>>
    /\ hslCall.op = "applyAdjustments"
    /\ SiteColor(animData, edCall.arg) # SiteColor(edCall.animData, edCall.arg)
\* the part that holds: the click that locks a path leaves every colour as it was
LockKeepsColors ==
    (edCall.op = "lockToggle" /\ edCall.arg \notin edCall.locked /\ edCall.prev = "sliderInput") =>
        \A q \in SitePaths(edCall.animData) : SiteColor(animData, q) = SiteColor(edCall.animData, q)

\* the gradient stops of a document whose paths are in a lock set
LockedStops(doc, locked) == {x \in GradientStops(doc) : x.path \in locked}
\* the chunks among the first n of a stop array that have the offset given
OffsetCount(arr, n, offset) == Cardinality({i \in 0..(n - 1) : ChunkAt(arr, i)[1] = offset})
\* the stop array of c in the document the position input found, with the new offset
\* written and the stops not yet sorted
EditedStops == SetIdx(StopsOf(edCall.animData, edCall.arg.c), edCall.arg.c.index.num,
                      parseFloat(edCall.arg.text))
\* an offset edit has just reordered the stops of a gradient one of whose stops is
\* locked, and the sliders are moved next: edCall is the edit, edCall' the slider
\* input, whose applyAdjustments call returned
ReorderedUnderLockThenApplied ==
    /\ edCall.op = "positionChange"
    /\ parseFloat(edCall.arg.text) # NaN
    /\ \E x \in LockedStops(edCall.animData, edCall.locked) : x.ref = edCall.arg.c.ref
    /\ StopsOf(animData, edCall.arg.c) # EditedStops
    /\ edCall'.op = "sliderInput"
    /\ hslCall'.ret # TypeError
\* C36: when an offset edit has reordered the stops of a gradient with a locked
\* stop, the document the next applyAdjustments returns holds the stop that was
\* locked once, with its offset as edited and the colour it had, and holds as many
\* stops with each offset as the gradient had after the edit
C36_LockFollowsReorderedStop ==
    [][ReorderedUnderLockThenApplied =>
          LET c == edCall.arg.c
              n == Turns(c.stopCount)
              arr == StopsOf(animData', c)
          IN  /\ \A x \in LockedStops(edCall.animData, edCall.locked) :
                     x.ref = c.ref => ChunkCount(arr, n, ChunkAt(EditedStops, x.index.num \div 4)) = 1
              /\ \A i \in 0..(n - 1) :
                     OffsetCount(arr, n, ChunkAt(EditedStops, i)[1])
                         = OffsetCount(EditedStops, n, ChunkAt(EditedStops, i)[1])]_vars
\* after an offset edit under a lock on a stop, the sliders were moved, and the
\* document returned holds two stops with the offset the baseline had none of
C36_Witness ==
    /\ edCall.op = "sliderInput"
    /\ edCall.prev = "positionChange"
    /\ hslCall.ret # TypeError
    /\ hslCall.before # Null
    /\ hueShift # 0
    /\ \E x \in LockedStops(edCall.animData, edCall.locked) :
           /\ OffsetCount(StopsOf(animData, x), Turns(x.stopCount), Int2Num(1)) = 2
           /\ OffsetCount(StopsOf(edCall.animData, x), Turns(x.stopCount), Int2Num(1)) = 1
           /\ OffsetCount(StopsOf(edCall.animData, x), Turns(x.stopCount), Rat(6, 5)) = 1
           /\ OffsetCount(StopsOf(animData, x), Turns(x.stopCount), Rat(6, 5)) = 0
\* the part that holds: an offset edit, the first since the file was loaded, that
\* leaves the order of the stops as it was
OrderKeptUnderLock ==
    [][(/\ edCall.op = "positionChange"
        /\ Len(edCall.historyStack) = 1
        /\ parseFloat(edCall.arg.text) # NaN
        /\ \E x \in LockedStops(edCall.animData, edCall.locked) : x.ref = edCall.arg.c.ref
        /\ StopsOf(animData, edCall.arg.c) = EditedStops
        /\ edCall'.op = "sliderInput"
        /\ hslCall'.ret # TypeError) =>
          \A x \in LockedStops(edCall.animData, edCall.locked) :
              x.ref = edCall.arg.c.ref =>
                  ChunkCount(StopsOf(animData', edCall.arg.c), Turns(edCall.arg.c.stopCount),
                             ChunkAt(EditedStops, x.index.num \div 4)) = 1]_vars

----------------------------------------------------------------------------
(* The document objects. Object identity at the grain of whole documents:      *)
(* objects.cells[id] is the document the object id holds; original, animData   *)
(* and baseline are the objects LottieEditor.originalAnimData,                 *)
(* LottieEditor.animData and HslAdjustManager.originalAnimData refer to (0 for  *)
(* null); history and redo hold, for every entry of the two stacks, the object  *)
(* its animData refers to and its shifts. An assignment into a document is a    *)
(* change of its cell, seen through every reference that holds the object.      *)

\* handlers run on the objects of one editor
MaxObjectOps == 5
\* the document a reference holds, and the states the entries of a stack hold
Val(cells, id) == IF id = 0 THEN Null ELSE cells[id]
Entry(doc, hsl) == [doc |-> doc, hsl |-> hsl]
EntryStates(cells, entries) ==
    [i \in 1..Len(entries) |-> EditorStateOf(cells[entries[i].doc], entries[i].hsl)]
EntryObjects(o) == {o.history[i].doc : i \in 1..Len(o.history)} \cup {o.redo[i].doc : i \in 1..Len(o.redo)}

\* this.animData = JSON.parse(JSON.stringify(animData)), part_001 line 248
LoadCopyShares(cells, ref) == [cells |-> cells, ref |-> ref]
LoadCopy(cells, ref) == JSONcopy(cells, ref)
\* JSON.parse(JSON.stringify(this.historyStack[this.historyStack.length - 1])),
\* HistoryManager.js line 43
UndoCopyShares(cells, ref) == [cells |-> cells, ref |-> ref]
UndoCopy(cells, ref) == JSONcopy(cells, ref)

\* the handler op leaves the objects o: the documents the editor's fields hold are
\* those of the objects they refer to
ObjStep == ops < MaxObjectOps /\ ops' = ops + 1
ObjectsAre(op, o) ==
    /\ objects' = [o EXCEPT !.op = op, !.pre = objects.cells]
    /\ animData' = Val(o.cells, o.animData)
    /\ originalAnimData' = Val(o.cells, o.original)
    /\ hslOriginalAnimData' = Val(o.cells, o.baseline)
    /\ historyStack' = EntryStates(o.cells, o.history)
    /\ redoStack' = EntryStates(o.cells, o.redo)
    /\ UNCHANGED <<MAX_HISTORY, lastCall, saveRun, hslCall, capture, editedPaths, edits, lockOps, heap,
                   extVars, pending, picker, edCall>>
ShiftsAre(sh) ==
    /\ hueShift' = sh[1]
    /\ saturationShift' = sh[2]
    /\ lightnessShift' = sh[3]

\* LottieEditor.saveState (part_001 lines 285-291) with HistoryManager.saveState
\* (lines 15-33) on the objects o, the shifts being sh: newState is a JSON copy
ObjSaved(o, sh) ==
    LET c == JSONcopy(o.cells, o.animData)
    IN  IF /\ Len(o.history) > 0
           /\ JSONstringify(EditorStateOf(c.cells[c.ref], sh))
                  = JSONstringify(EditorStateOf(o.cells[Last(o.history).doc], Last(o.history).hsl))
        THEN o
        ELSE [o EXCEPT !.cells = c.cells, !.history = PushTrimmed(o.history, Entry(c.ref, sh)),
                       !.redo = <<>>]
\* handleFile, part_001 lines 247-254: the object loadFile returned, its copy, and
\* the entry saved after historyManager.clear()
ObjLoaded(doc, sh) ==
    LET c == LoadCopy(<<doc>>, 1)
    IN  ObjSaved([NoObjects EXCEPT !.cells = c.cells, !.original = 1, !.animData = c.ref], sh)
ObjHandleFile(doc) ==
    /\ ObjStep
    /\ objects.op = "none"
    /\ ObjectsAre("handleFile", ObjLoaded(doc, <<hueShift, saturationShift, lightnessShift>>))
    /\ ShiftsAre(<<0, 0, 0>>)
    /\ UNCHANGED <<lockedPaths, mergeCall>>

\* a callback that only saves: the picker's onOpen, posInput.onfocus, a slider's onchange
ObjSaveState ==
    /\ ObjStep
    /\ objects.animData # 0
    /\ ObjectsAre("saveState", ObjSaved(objects, <<hueShift, saturationShift, lightnessShift>>))
    /\ UNCHANGED <<hueShift, saturationShift, lightnessShift, lockedPaths, mergeCall>>
\* the picker's onChange, part_003 lines 450-496: assignments into the working document
ObjPickerChange(instance, hex) ==
    /\ ObjStep
    /\ objects.animData # 0
    /\ ObjectsAre("pickerChange",
                  [objects EXCEPT !.cells[objects.animData] = WriteColor(@, instance, hex)])
    /\ UNCHANGED <<hueShift, saturationShift, lightnessShift, lockedPaths, mergeCall>>
\* posInput.onchange, part_003 lines 633-636: assignments into the working document
\* (lines 672-692), then saveState
ObjPositionChange(c, text) ==
    /\ ObjStep
    /\ objects.animData # 0
    /\ ObjectsAre("positionChange",
                  ObjSaved([objects EXCEPT !.cells[objects.animData] = handleGradientPositionInput(@, c, text)],
                           <<hueShift, saturationShift, lightnessShift>>))
    /\ UNCHANGED <<hueShift, saturationShift, lightnessShift, lockedPaths, mergeCall>>

\* applyAdjustments on the objects, r being what it computes: the baseline is a
\* JSON copy made once (line 23), syncLockedColors assigns into the baseline
\* (lines 176, 182), freshData is a JSON copy of the baseline (line 131) that the walk
\* assigns into and that becomes this.animData (part_001 line 375)
ObjApplied(o, r) ==
    LET cap == IF o.baseline = 0 THEN JSONcopy(o.cells, o.animData) ELSE [cells |-> o.cells, ref |-> o.baseline]
        synced == [cap.cells EXCEPT ![cap.ref] = r.original]
    IN  IF r.ret = TypeError
        THEN [o EXCEPT !.cells = synced, !.baseline = cap.ref]
        ELSE [o EXCEPT !.cells = Append(synced, r.ret), !.baseline = cap.ref, !.animData = Len(synced) + 1]
\* a slider is moved: handleHslChange, part_001 lines 176-206
ObjSliderInput(h, s, l) ==
    /\ ObjStep
    /\ objects.animData # 0
    /\ \E r \in {applyAdjustments(hslOriginalAnimData, animData, lockedPaths, h, s, l)} :
        /\ ObjectsAre("sliderInput", ObjApplied(objects, r))
        /\ ShiftsAre(<<ShiftAfter(r, hueShift, h), ShiftAfter(r, saturationShift, s),
                       ShiftAfter(r, lightnessShift, l)>>)
    /\ UNCHANGED <<lockedPaths, mergeCall>>
\* a lock button is clicked: togglePathLock, then the onLockToggle callback
\* (part_001 lines 75-82)
ObjLockToggle(path) ==
    /\ ObjStep
    /\ objects.animData # 0
    /\ lockedPaths' = togglePathLock(lockedPaths, path)
    /\ IF hasAdjustments
       THEN \E r \in {applyAdjustments(hslOriginalAnimData, animData, lockedPaths', hueShift,
                                       saturationShift, lightnessShift)} :
                /\ ObjectsAre("lockToggle", ObjApplied(objects, r))
                /\ ShiftsAre(<<ShiftAfter(r, hueShift, hueShift), ShiftAfter(r, saturationShift, saturationShift),
                               ShiftAfter(r, lightnessShift, lightnessShift)>>)
       ELSE /\ ObjectsAre("lockToggle", objects)
            /\ UNCHANGED <<hueShift, saturationShift, lightnessShift>>
    /\ UNCHANGED mergeCall

\* undoChange (part_001 lines 296-317) with undo (HistoryManager.js lines 39-44): the
\* top entry moves to the redo stack, a JSON copy of the new top is returned and its
\* animData becomes the working document
ObjUndone(o) ==
    LET c == UndoCopy(o.cells, Last(Front(o.history)).doc)
    IN  [o EXCEPT !.cells = c.cells, !.history = Front(o.history),
                  !.redo = Append(o.redo, Last(o.history)), !.animData = c.ref]
ObjUndoChange ==
    /\ ObjStep
    /\ objects.animData # 0
    /\ IF Len(objects.history) <= 1
       THEN /\ ObjectsAre("undoNothing", objects)
            /\ UNCHANGED <<hueShift, saturationShift, lightnessShift>>
       ELSE /\ ObjectsAre("undoChange", ObjUndone(objects))
            /\ ShiftsAre(Last(Front(objects.history)).hsl)
    /\ UNCHANGED <<lockedPaths, mergeCall>>
\* redoChange (lines 322-348) with redo (HistoryManager.js lines 51-57): a JSON copy of
\* the current state is pushed, the entry popped from the redo stack is returned
\* and its animData becomes the working document
ObjRedone(o, sh) ==
    LET c == JSONcopy(o.cells, o.animData)
    IN  [o EXCEPT !.cells = c.cells, !.history = Append(o.history, Entry(c.ref, sh)),
                  !.redo = Front(o.redo), !.animData = Last(o.redo).doc]
ObjRedoChange ==
    /\ ObjStep
    /\ objects.animData # 0
    /\ IF Len(objects.redo) = 0
       THEN /\ ObjectsAre("redoNothing", objects)
            /\ UNCHANGED <<hueShift, saturationShift, lightnessShift>>
       ELSE /\ ObjectsAre("redoChange", ObjRedone(objects, <<hueShift, saturationShift, lightnessShift>>))
            /\ ShiftsAre(Last(objects.redo).hsl)
    /\ UNCHANGED <<lockedPaths, mergeCall>>

\* resetColors(), part_001 lines 353-364: saveState, a JSON copy of the original
\* becomes the working document, hslManager.clear()
ObjResetColors ==
    /\ ObjStep
    /\ objects.original # 0
    /\ \E o \in {ObjSaved(objects, <<hueShift, saturationShift, lightnessShift>>)} :
        \E c \in {JSONcopy(o.cells, o.original)} :
            ObjectsAre("resetColors", [o EXCEPT !.cells = c.cells, !.animData = c.ref, !.baseline = 0])
    /\ ShiftsAre(<<0, 0, 0>>)
    /\ UNCHANGED <<lockedPaths, mergeCall>>
\* resetHslAdjustments(), part_001 lines 400-424: saveState, clearLocks, and the JSON
\* copy of the baseline that reset() returns becomes the working document
ObjResetHslAdjustments ==
    /\ ObjStep
    /\ objects.animData # 0
    /\ \E o \in {ObjSaved(objects, <<hueShift, saturationShift, lightnessShift>>)} :
        IF o.baseline = 0
        THEN ObjectsAre("resetHsl", o)
        ELSE \E c \in {JSONcopy(o.cells, o.baseline)} :
                ObjectsAre("resetHsl", [o EXCEPT !.cells = c.cells, !.animData = c.ref])
    /\ lockedPaths' = {}
    /\ ShiftsAre(<<0, 0, 0>>)
    /\ UNCHANGED mergeCall
\* handleExport (part_001 lines 477-485) with ExportManager.export (HistoryManager.js
\* lines 95-107): finalExportData is a JSON copy of the original, and the merge
\* assigns into it
ObjExport ==
    /\ ObjStep
    /\ objects.original # 0
    /\ \E c \in {JSONcopy(objects.cells, objects.original)} :
        /\ mergeCall' = MergeCall("export", animData, c.cells[c.ref])
        /\ ObjectsAre("export",
                      [objects EXCEPT !.cells = [c.cells EXCEPT ![c.ref] = mergeCall'.after],
                                      !.export = c.ref])
    /\ UNCHANGED <<hueShift, saturationShift, lightnessShift, lockedPaths>>

\* the files loaded, and the text typed into a position input
ObjectFiles == {DocSolids, DocGradient}
ObjectTexts == {"1.2"}
NextObjects ==
    \/ \E doc \in ObjectFiles : ObjHandleFile(doc)
    \/ ObjSaveState
    \/ \E c \in Instances(animData), hex \in PickedColors : ObjPickerChange(c, hex)
    \/ \E c \in GradientStops(animData), text \in ObjectTexts : ObjPositionChange(c, text)
    \/ \E sh \in SessionShifts : ObjSliderInput(sh[1], sh[2], sh[3])
    \/ \E path \in SitePaths(animData) : ObjLockToggle(path)
    \/ ObjUndoChange
    \/ ObjRedoChange
    \/ ObjResetColors
    \/ ObjResetHslAdjustments
    \/ ObjExport
SpecObjects == InitEditor /\ [][NextObjects]_vars

----------------------------------------------------------------------------
(* The log: the two stacks together *)

\* C39: after any sequence of saveState, undo, redo and clear calls the undo
\* stack and the redo stack together hold at most MAX_HISTORY entries, so the
\* undo stack a redo has pushed onto, without trimming, holds at most
\* MAX_HISTORY entries
C39_StacksTogetherBounded ==
    /\ Len(historyStack) + Len(redoStack) <= MAX_HISTORY
    /\ (IsCall("redo") /\ lastCall.ret # Null) => Len(historyStack) <= MAX_HISTORY
\* a redo pushed onto the undo stack while the two stacks together were full,
\* and filled the undo stack
C39_Witness ==
    /\ IsCall("redo")
    /\ lastCall.ret # Null
    /\ MAX_HISTORY >= 2
    /\ Len(lastCall.preHistory) + Len(lastCall.preRedo) = MAX_HISTORY
    /\ Len(lastCall.preRedo) = 1
    /\ Len(historyStack) = MAX_HISTORY

----------------------------------------------------------------------------
(* The document objects: the claims *)

\* C37: once a file is loaded, no handler other than a load changes the object
\* originalAnimData refers to or the document it holds, whatever colour edits,
\* offset edits, slider moves, lock clicks, undos, redos, resets and exports are
\* made; and an export assigns into an object that did not exist before it, made
\* as a copy of the original
C37_OriginalImmutable ==
    [][(objects.original # 0 /\ objects'.op # "handleFile") =>
          /\ objects'.original = objects.original
          /\ objects'.cells[objects.original] = objects.cells[objects.original]
          /\ originalAnimData' = originalAnimData
          /\ objects'.op = "export" =>
                /\ objects'.export > Len(objects.cells)
                /\ mergeCall'.target = originalAnimData]_vars
\* an edited document was exported: the exported document holds the edit and the
\* original is the file as loaded
C37_Witness ==
    /\ objects.op = "export"
    /\ originalAnimData \in ObjectFiles
    /\ animData # originalAnimData
    /\ objects.export \notin {objects.original, objects.animData}
    /\ objects.cells[objects.export] # originalAnimData
    /\ mergeCall.writes # {}

\* C38: no entry of the undo or redo stack holds the object the working document
\* is, and the document an entry holds is the same for as long as the entry is on
\* a stack, whatever is assigned into the working document, the one undo() or
\* redo() returned included
C38_EntriesIsolated ==
    [][/\ objects'.animData \notin EntryObjects(objects')
       /\ \A id \in EntryObjects(objects) \cap EntryObjects(objects') :
              objects'.cells[id] = objects.cells[id]]_vars
\* a colour was written through the picker into a document that undo() or redo()
\* had returned, while both stacks hold entries
C38_Witness ==
    /\ objects.op = "pickerChange"
    /\ objects.redo # <<>>
    /\ Len(objects.history) >= 1
    /\ objects.cells[objects.animData] # objects.pre[objects.animData]
    /\ \A id \in EntryObjects(objects) : objects.cells[id] = objects.pre[id]
    /\ Get(Last(historyStack), "animData") # animData

====
